---------------------------- MODULE Spec2Model ----------------------------
(***************************************************************************)
(* A model of the facil.io core types (lib/facil/fio-stl.h):               *)
(*   - the slab allocator (fio_malloc / fio_realloc / fio_free, arenas,    *)
(*     block rotation, teardown and the post-fork lock reset),             *)
(*   - the reference counting wrapper (new2 / up_ref / free2),             *)
(*   - the ordered hash map / set (FIO_MAP_NAME).                          *)
(* Every subsystem has its own specification over the shared variables;    *)
(* the variables of the other subsystems stay at their initial values.     *)
(***************************************************************************)
EXTENDS Integers, Sequences, FiniteSets, TLC

(***************************************************************************)
(* Bounds of the model.                                                    *)
(***************************************************************************)
\* number of threads calling into the allocator
NThreads == 2
\* number of detected CPU cores, i.e. of arenas (sysconf(_SC_NPROCESSORS_ONLN))
NCores == 2
\* FIO_MEMORY_BLOCKS_PER_ALLOCATION, scaled down (256 in the source)
BlocksPerAllocation == 2
\* number of super-block addresses the page allocator can hand out
MaxSuperBlocks == 2
\* fio_malloc / fio_realloc is called at most this many times in a run
MaxAllocs == 3
\* up_ref is called at most this many times in a run
MaxUpRef == 4
\* number of threads that pass a reference counted object around
NHolders == 3
\* number of distinct keys offered to the hash map / set
NKeys == 3
\* number of distinct values offered to the hash map / set
NValues == 2
\* reserve asks the hash map / set for a table of 2^MaxBits slots
MaxBits == 2
\* the table of the hash map / set grows to at most 2^MaxTableBits slots
MaxTableBits == 4
\* number of elements, all of one hash, offered to the set under attack
NAttackKeys == 13
\* number of calls made to the hash map / set in a run
MaxOps == 6
\* width of FIO_MAP_HASH in bits, scaled down (uintptr_t, 64 in the source)
HashBits == 8
\* number of distinct keys offered to the hash map for bigger items
NHKeys == 3
\* the hash map for bigger items is called at most this many times in a run
MaxHOps == 5
\* the dynamic string is called at most this many times in a run
MaxStrOps == 3
\* calls of fio_json_parse on the one parser
MaxJsonCalls == 2
\* number of threads that take and release arenas without end
NArenaThreads == 3

\* nodes the caller of the linked list can allocate, and calls it makes
NListNodes == 3
MaxListOps == 6

\* number of distinct element values offered to the dynamic array
NAryValues == 2
\* the dynamic array is called at most this many times in a run
MaxAryOps == 3

(***************************************************************************)
(* Slab allocator: constants, in units of 16 bytes.                        *)
(***************************************************************************)
\* FIO_MEMORY_BLOCK_SIZE >> 4, scaled down: a block of 4 slices, 64 bytes
FIO_MEMORY_BLOCK_SLICES == 4
\* FIO_MEMORY_BLOCK_HEADER_SIZE >> 4: sizeof(fio_mem___block_s) is 16 bytes
FIO_MEMORY_BLOCK_START_POS == 1
\* FIO_MEMORY_BLOCK_ALLOC_LIMIT, in bytes: half a block
FIO_MEMORY_BLOCK_ALLOC_LIMIT == (FIO_MEMORY_BLOCK_SLICES * 16) \div 2
\* `max` of fio_mem___block_slice
SliceMax == FIO_MEMORY_BLOCK_SLICES - FIO_MEMORY_BLOCK_START_POS

Threads == 1 .. NThreads
Arenas == 1 .. NCores
SuperBlocks == 1 .. MaxSuperBlocks
\* a block's address, in blocks; 0 is NULL.  Super-block s spans the
\* addresses s * BlocksPerAllocation .. s * BlocksPerAllocation + (N - 1).
NULL == 0
SBBase(s) == s * BlocksPerAllocation
SBBlocks(s) == SBBase(s) .. (SBBase(s) + BlocksPerAllocation - 1)
Blocks == UNION {SBBlocks(s) : s \in SuperBlocks}
\* the request sizes (bytes) threads pass to fio_malloc / fio_realloc
Sizes == {1, FIO_MEMORY_BLOCK_ALLOC_LIMIT}

VARIABLES
  \* ---- slab allocator ----
  state,        \* fio_mem___state != NULL
  glock,        \* fio_mem___state->lock: 0, or the thread that took it
  alock,        \* arenas[i].lock: 0, or the thread that took it
  ablock,       \* arenas[i].block
  blk,          \* block headers: root, root_ref, ref, pos
  avail,        \* fio_mem___state->available, head first
  mapped,       \* the super-blocks currently mapped from the OS
  block_count,  \* fio_mem___block_count (DEBUG counter)
  live,         \* the small allocations returned and not yet freed
  th,           \* per thread: program counter and locals
  nalloc,       \* number of fio_malloc / fio_realloc calls made so far
  after_fork,   \* fio_malloc_after_fork has been called in this process
  child         \* 0 in the parent; after fork(), the thread that forked

memvars == <<state, glock, alock, ablock, blk, avail, mapped, block_count,
             live, th, nalloc, after_fork, child>>

\* ---- the reference counting wrapper: one wrapper object ----
Holders == 1..NHolders

VARIABLES
  o_mem,        \* the wrapper's memory: "none", "allocated" or "freed"
  o_ref,        \* o->ref (volatile uint32_t; at most MaxUpRef + 1 here)
  was_destroyed,      \* number of times FIO_REFERENCE_DESTROY ran
  meta_was_destroyed, \* number of times FIO_REFERENCE_METADATA_DESTROY ran
  held,         \* per thread: the references to the object it owns
  rpc,          \* per thread: its position inside free2
  nup           \* number of up_ref calls made so far

refvars == <<o_mem, o_ref, was_destroyed, meta_was_destroyed, held, rpc, nup>>

\* ---- the ordered hash map / set: one container ----
VARIABLES
  m,            \* the container: FIO_NAME(FIO_MAP_NAME, s) and its table
  keyed,        \* TRUE for a hash map (FIO_MAP_KEY defined), FALSE for a set
  mstate,       \* "ok", or how the last call failed to return
  res,          \* the last call made and what it returned
  abs,          \* the entries inserted and not removed, in insertion order
  nops          \* number of calls made so far

mapvars == <<m, keyed, mstate, res, abs, nops>>

\* ---- the dynamic array: one container ----
VARIABLES
  arr,          \* the container: FIO_NAME(FIO_ARRAY_NAME, s) and its memory
  atype,        \* FIO_ARRAY_TYPE the array was compiled for
  astate,       \* "ok", or "crash" once a call wrote outside the memory
  ares,         \* the last call made and what it returned
  anops         \* number of calls made so far

aryvars == <<arr, atype, astate, ares, anops>>

\* ---- the hash map for bigger items (FIO_HMAP_NAME): one container ----
VARIABLES
  hm,           \* the container: FIO_NAME(FIO_HMAP_NAME, s), its map and data
  hstate,       \* "ok", or "crash" once a call wrote outside the memory
  hres,         \* the last call made and what it returned
  habs,         \* the value last inserted for each key, 0 when not present
  hdup,         \* TRUE once insert was called with a key that was present
  hnops         \* number of calls made so far

hmapvars == <<hm, hstate, hres, habs, hdup, hnops>>

\* ---- the dynamic string (FIO_STRING_NAME): one string ----
VARIABLES
  str,          \* the container: special, capa, len, data and the memory
                \* the string's bytes live in
  sfresh,       \* the address the allocator hands out next
  sstate,       \* "ok", or what a write outside the memory led to
  sres,         \* the last call made and the info it returned
  snops         \* number of calls made so far

strvars == <<str, sfresh, sstate, sres, snops>>

\* ---- the JSON parser (FIO_JSON): one parser and one soft value ----
VARIABLES
  jp,           \* the parser: fio_json_parser_s (nesting, depth, expect)
  jprev,        \* the last byte the parser took that was neither
                \* whitespace nor part of a comment, 0 when none
  jres,         \* the last call made, its input, the callbacks it
                \* delivered in order and what it returned
  jnops         \* number of calls made so far

jsonvars == <<jp, jprev, jres, jnops>>

\* ---- arena acquisition alone: more threads than arenas, calling for ever ----
VARIABLES
  ath,          \* per thread: where it is in fio_mem___arena_aquire, its
                \* thread-local fio_mem___arena and the index of the scan
  arenalock     \* fio_mem___state->arenas[i].lock: 0, or the thread that set it

arenavars == <<ath, arenalock>>

\* ---- the embedded linked list (FIO_LIST_NAME): one head, a few nodes ----
VARIABLES
  lmem,          \* the memory: next and prev of the head (0) and of every
                \* node, what the allocator did with the node, and "ok" or
                \* what a bad pointer led to
  labs,         \* the nodes the caller has in the list, first to last
  leach,        \* the FIO_LIST_EACH loop under way: pos, next____p_ls, the
                \* list at loop entry and the nodes the body was run for
  lres,         \* the last call made and what it returned
  lnops         \* number of calls made so far

listvars == <<lmem, labs, leach, lres, lnops>>

\* the variables of the typed containers that follow the hash map
typevars == <<aryvars, hmapvars, strvars, jsonvars, arenavars, listvars>>

\* the variables of the subsystems other than the allocator
notmemvars == <<refvars, mapvars, typevars>>

vars == <<memvars, notmemvars>>

(***************************************************************************)
(* Ordered hash map / set: constants and types.                            *)
(***************************************************************************)
FIO_MAP_HASH_INVALID == 0
FIO_MAP_TYPE_INVALID == 0
FIO_MAP_MAX_SEEK == 96
FIO_MAP_MAX_FULL_COLLISIONS == 96
FIO_MAP_CUCKOO_STEPS == 1140337931
\* (uint32_t)-1: the index that marks an unlinked node and an empty ring
NoPos == -1
\* the NULL node pointer returned by _find_map_pos
PosNULL == -2

RECURSIVE Pow2(_)
Pow2(n) == IF n = 0 THEN 1 ELSE 2 * Pow2(n - 1)

\* bitwise operators of C on non-negative integers
RECURSIVE BitOr(_, _)
BitOr(a, b) ==
  IF a = 0 THEN b
  ELSE IF b = 0 THEN a
  ELSE 2 * BitOr(a \div 2, b \div 2) + (IF a % 2 = 1 \/ b % 2 = 1 THEN 1 ELSE 0)

RECURSIVE BitXor(_, _)
BitXor(a, b) ==
  IF a = 0 THEN b
  ELSE IF b = 0 THEN a
  ELSE 2 * BitXor(a \div 2, b \div 2) + (IF a % 2 = b % 2 THEN 0 ELSE 1)

RECURSIVE BitAnd(_, _)
BitAnd(a, b) ==
  IF a = 0 \/ b = 0 THEN 0
  ELSE 2 * BitAnd(a \div 2, b \div 2) + (IF a % 2 = 1 /\ b % 2 = 1 THEN 1 ELSE 0)

\* uint8_t arithmetic of has_collisions
U8(x) == x % 256

\* (FIO_MAP_HASH){~0ULL}
HashAllOnes == Pow2(HashBits) - 1

\* FIO_MAP_HASH_OFFSET(hash, offset): the hash rotated left by offset, xor
\* the hash
FIO_MAP_HASH_OFFSET(hash, offset) ==
  LET l == BitAnd(offset, HashBits - 1)
      r == BitAnd(HashBits - l, HashBits - 1)
  IN BitXor(BitOr((hash * Pow2(l)) % Pow2(HashBits), hash \div Pow2(r)), hash)

Keys == 1..NKeys
Values == 1..NValues

\* the hash the caller computes for a key: key 1 hashes to zero, keys 2 and
\* 3 collide in full, and all three start probing at the same slot
HashTab == <<0, 4, 4>>

HashOf(k) == IF k <= Len(HashTab) THEN HashTab[k] ELSE k

\* a node of the table as calloc leaves it
ZeroObj == [key |-> 0, value |-> FIO_MAP_TYPE_INVALID]

ZeroNode == [prev |-> 0, next |-> 0, hash |-> FIO_MAP_HASH_INVALID,
             obj |-> ZeroObj]

\* FIO_MAP_INIT: { .map = NULL }
FIO_MAP_INIT == [has_map |-> FALSE, map |-> <<>>, head |-> 0, count |-> 0,
                 used_bits |-> 0, has_collisions |-> 0, under_attack |-> 0]

\* the table of a map: a function from 0 .. 2^bits - 1 to nodes
NewTable(bits) == [i \in 0..(Pow2(BitAnd(bits, 31)) - 1) |-> ZeroNode]

NoResult == [op |-> "none", key |-> 0, value |-> 0, rv |-> ZeroObj, code |-> 0,
             old |-> ZeroObj, seen |-> <<>>]

MapInit(k) ==
  /\ m = FIO_MAP_INIT
  /\ keyed = k
  /\ mstate = "ok"
  /\ res = NoResult
  /\ abs = <<>>
  /\ nops = 0

RefInit ==
  /\ o_mem = "none"
  /\ o_ref = 0
  /\ was_destroyed = 0
  /\ meta_was_destroyed = 0
  /\ held = [t \in Holders |-> 0]
  /\ rpc = [t \in Holders |-> "idle"]
  /\ nup = 0

\* uint16_t arithmetic of the block header's counters
U16(x) == x % 65536

ZeroBlock == [root |-> 0, root_ref |-> 0, ref |-> 0, pos |-> 0]

IdleThread == [pc |-> "idle", arena |-> 0, i |-> 0, to_free |-> NULL,
               b |-> NULL, units |-> 0, ret |-> "idle", old |-> NULL]

\* HSFUNC fio_mem___block_root
fio_mem___block_root(hdr, b) == b - hdr[b].root

\* the super-block a block address lies in
SBOf(b) == b \div BlocksPerAllocation

RECURSIVE SeqRemove(_, _)
SeqRemove(s, S) ==
  IF s = <<>> THEN <<>>
  ELSE IF Head(s) \in S THEN SeqRemove(Tail(s), S)
       ELSE <<Head(s)>> \o SeqRemove(Tail(s), S)

OnList(b) == \E k \in 1 .. Len(avail) : avail[k] = b

\* bytes to 16 byte units, as in fio_mem___block_slice
Bytes2Units(bytes) == (bytes + 15) \div 16

MemInit ==
  /\ state = TRUE   \* the constructor fio_mem___state_allocate has run
  /\ glock = 0
  /\ alock = [a \in Arenas |-> 0]
  /\ ablock = [a \in Arenas |-> NULL]
  /\ blk = [b \in Blocks |-> ZeroBlock]
  /\ avail = <<>>
  /\ mapped = {}
  /\ block_count = 0
  /\ live = {}
  /\ th = [t \in Threads |-> IdleThread]
  /\ nalloc = 0
  /\ after_fork = FALSE
  /\ child = 0

\* a thread exists in this process: every thread in the parent, only the
\* forking thread in the child
Alive(t) == child = 0 \/ child = t

\* the destructor fio_mem___destroy is running (the program is exiting)
Tearing == \E u \in Threads : th[u].pc = "destroy" \/ th[u].ret = "destroy"

\* the allocator is constructed and the program is not exiting
Running == state /\ ~Tearing

(***************************************************************************)
(* The spin locks (fio_lock_i).  A lock holds 0, or, in place of the 1 of  *)
(* the source, the thread that set it.                                     *)
(***************************************************************************)
\* fio_trylock: fio_atomic_xchange(lock, 1); the lock is the caller's when
\* the value it read was 0
fio_trylock_blind(lock, t) == t

fio_trylock(lock, t) == IF lock = 0 THEN t ELSE lock

\* fio_unlock: fio_atomic_xchange(lock, 0)
fio_unlock_keeps(lock) == lock

fio_unlock(lock) == 0

(***************************************************************************)
(* fio_malloc(size), 0 < size <= FIO_MEMORY_BLOCK_ALLOC_LIMIT, enters      *)
(* fio_mem___block_slice and fio_mem___arena_aquire: the arena the thread  *)
(* used last is tried first (one fio_trylock), then the scan starts.       *)
(***************************************************************************)
EnterSlice(t, size, old) ==
  LET a == th[t].arena
      got == a # 0 /\ alock[a] = 0 IN
  /\ alock' = IF got THEN [alock EXCEPT ![a] = t] ELSE alock
  /\ th' = [th EXCEPT ![t] = [@ EXCEPT !.units = Bytes2Units(size),
                                       !.old = old,
                                       !.i = IF got THEN 0 ELSE 1,
                                       !.pc = IF got THEN "slice"
                                              ELSE "acq_scan"]]

fio_malloc(t, size) ==
  /\ Running /\ Alive(t)
  /\ th[t].pc = "idle"
  /\ size > 0 /\ size <= FIO_MEMORY_BLOCK_ALLOC_LIMIT
  /\ nalloc < MaxAllocs
  /\ nalloc' = nalloc + 1
  /\ EnterSlice(t, size, NULL)
  /\ UNCHANGED <<notmemvars, state, glock, ablock, blk, avail, mapped,
                 block_count, live, child, after_fork>>

\* fio_realloc2(ptr, new_size, ...) of a small allocation: fio_malloc, copy,
\* then fio_mem___block_free of the old block
fio_realloc(t, s, size) ==
  /\ Running /\ Alive(t)
  /\ th[t].pc = "idle"
  /\ s \in live
  /\ size > 0 /\ size <= FIO_MEMORY_BLOCK_ALLOC_LIMIT
  /\ nalloc < MaxAllocs
  /\ nalloc' = nalloc + 1
  /\ live' = live \ {s}
  /\ EnterSlice(t, size, s.b)
  /\ UNCHANGED <<notmemvars, state, glock, ablock, blk, avail, mapped,
                 block_count, child, after_fork>>

\* fio_mem___arena_aquire: one fio_trylock of the scan over the arenas; after
\* the last arena the thread sleeps and starts over
arena_aquire_scan(t) ==
  /\ Alive(t)
  /\ th[t].pc = "acq_scan"
  /\ LET i == th[t].i IN
     IF alock[i] = 0
       THEN /\ alock' = [alock EXCEPT ![i] = t]
            /\ th' = [th EXCEPT ![t] = [@ EXCEPT !.arena = i, !.i = 0,
                                                 !.pc = "slice"]]
       ELSE /\ th' = [th EXCEPT ![t].i = IF i = NCores THEN 1 ELSE i + 1]
            /\ UNCHANGED alock
  /\ UNCHANGED <<notmemvars, state, glock, ablock, blk, avail, mapped, block_count,
                 live, child, nalloc, after_fork>>

\* a slice that is counted in the block's ref while pos stays where it was
SliceTakeStale(hdr, b, units) ==
  [hdr EXCEPT ![b] = [@ EXCEPT !.ref = U16(@ + 1)]]

\* the slice taken without counting it in the block's ref
SliceTakeUncounted(hdr, b, units) ==
  [hdr EXCEPT ![b] = [@ EXCEPT !.pos = U16(@ + units)]]

\* the slice itself: count it in the block's ref and advance pos
SliceTake(hdr, b, units) ==
  [hdr EXCEPT ![b] = [@ EXCEPT !.ref = U16(@ + 1), !.pos = U16(@ + units)]]

\* fio_mem___block_slice with the arena's lock held: slice the arena's block
\* when it has room, else start fio_mem___block_rotate by detaching it
block_slice(t) ==
  /\ Alive(t)
  /\ th[t].pc = "slice"
  /\ LET b == ablock[th[t].arena] IN
     IF b = NULL \/ blk[b].pos + th[t].units >= SliceMax
       THEN /\ th' = [th EXCEPT ![t] = [@ EXCEPT !.to_free = b,
                                                 !.pc = "rot_lock"]]
            /\ ablock' = [ablock EXCEPT ![th[t].arena] = NULL]
            /\ UNCHANGED blk
       ELSE /\ blk' = SliceTake(blk, b, th[t].units)
            /\ th' = [th EXCEPT ![t] = [@ EXCEPT !.b = b, !.i = blk[b].pos,
                                                 !.pc = "release"]]
            /\ UNCHANGED ablock
  /\ UNCHANGED <<notmemvars, state, glock, alock, avail, mapped, block_count,
                 live, child, nalloc, after_fork>>

\* fio_lock(&fio_mem___state->lock): spins until the lock is taken
fio_lock_global(t, from, to) ==
  /\ Alive(t)
  /\ th[t].pc = from
  /\ glock = 0
  /\ glock' = t
  /\ th' = [th EXCEPT ![t].pc = to]
  /\ UNCHANGED <<notmemvars, state, alock, ablock, blk, avail, mapped, block_count,
                 live, child, nalloc, after_fork>>

\* a rotation that goes on to the free list without the global lock
block_rotate_lock_skipped(t) ==
  /\ Alive(t)
  /\ th[t].pc = "rot_lock"
  /\ th' = [th EXCEPT ![t].pc = "rot_pop"]
  /\ UNCHANGED <<notmemvars, state, glock, alock, ablock, blk, avail, mapped, block_count,
                 live, child, nalloc, after_fork>>

block_rotate_lock(t) == fio_lock_global(t, "rot_lock", "rot_pop")

\* fio_mem___block_alloc: map a super-block at address s, push its first
\* N - 1 blocks and return the last one
block_alloc_hdr(hdr, s) ==
  [b \in Blocks |->
     IF b \in SBBlocks(s)
       THEN IF b < SBBase(s) + BlocksPerAllocation - 1
              THEN [root |-> b - SBBase(s), root_ref |-> 0, ref |-> 0, pos |-> 0]
              ELSE [hdr[b] EXCEPT !.root = BlocksPerAllocation - 1]
       ELSE hdr[b]]

block_alloc_list(lst, s) ==
  lst \o [k \in 1 .. (BlocksPerAllocation - 1) |-> SBBase(s) + k - 1]

\* the arena's new block: popped from the tail of the free list, or the last
\* block of a fresh super-block
RotatePopped == IF avail # <<>> THEN avail[Len(avail)] ELSE NULL

\* fio_mem___block_rotate under the global lock: pop or allocate, then count
\* the block in its super-block's root_ref
block_rotate_pop(t) ==
  /\ Alive(t)
  /\ th[t].pc = "rot_pop"
  /\ IF RotatePopped # NULL
       THEN LET b == RotatePopped
                r == fio_mem___block_root(blk, b) IN
            /\ avail' = SubSeq(avail, 1, Len(avail) - 1)
            /\ ablock' = [ablock EXCEPT ![th[t].arena] = b]
            /\ blk' = [blk EXCEPT ![r].root_ref = U16(@ + 1)]
            /\ UNCHANGED <<mapped, block_count>>
       ELSE /\ \E s \in SuperBlocks \ mapped :
                 /\ \A s2 \in SuperBlocks \ mapped : s <= s2
                 /\ LET hdr == block_alloc_hdr(blk, s)
                        b == SBBase(s) + BlocksPerAllocation - 1
                        r == fio_mem___block_root(hdr, b) IN
                    /\ mapped' = mapped \cup {s}
                    /\ avail' = block_alloc_list(avail, s)
                    /\ block_count' = block_count + 1
                    /\ ablock' = [ablock EXCEPT ![th[t].arena] = b]
                    /\ blk' = [hdr EXCEPT ![r].root_ref = U16(@ + 1)]
  /\ th' = [th EXCEPT ![t].pc = "rot_unlock"]
  /\ UNCHANGED <<notmemvars, state, glock, alock, live, child, nalloc, after_fork>>

\* fio_unlock(&fio_mem___state->lock)
fio_unlock_global(t, from, to) ==
  /\ Alive(t)
  /\ th[t].pc = from
  /\ glock' = fio_unlock(glock)
  /\ th' = [th EXCEPT ![t].pc = to]
  /\ UNCHANGED <<notmemvars, state, alock, ablock, blk, avail, mapped, block_count,
                 live, child, nalloc, after_fork>>

\* fio_mem___block_rotate: fio_unlock(&fio_mem___state->lock) with the new
\* block already in the arena and counted in root_ref
block_rotate_unlock(t) ==
  /\ Alive(t)
  /\ th[t].pc = "rot_unlock"
  /\ glock' = fio_unlock(glock)
  /\ th' = [th EXCEPT ![t].pc = "rot_init"]
  /\ UNCHANGED <<notmemvars, state, alock, ablock, blk, avail, mapped, block_count,
                 live, child, nalloc, after_fork>>

\* fio_mem___block_rotate after the unlock: ref = 1 and pos = 0 on the new
\* block, and on to fio_mem___block_free(to_free)
block_rotate_init(t) ==
  /\ Alive(t)
  /\ th[t].pc = "rot_init"
  /\ LET b == ablock[th[t].arena] IN
     blk' = [blk EXCEPT ![b] = [@ EXCEPT !.ref = 1, !.pos = 0]]
  /\ th' = [th EXCEPT ![t] = [@ EXCEPT !.b = th[t].to_free, !.to_free = NULL,
                                       !.ret = "slice_take",
                                       !.pc = "bf_sub"]]
  /\ UNCHANGED <<notmemvars, state, glock, alock, ablock, avail, mapped,
                 block_count, live, child, nalloc, after_fork>>

\* fio_mem___block_slice after the rotation: take the slice
block_slice_take(t) ==
  /\ Alive(t)
  /\ th[t].pc = "slice_take"
  /\ LET b == ablock[th[t].arena] IN
     /\ blk' = SliceTake(blk, b, th[t].units)
     /\ th' = [th EXCEPT ![t] = [@ EXCEPT !.b = b, !.i = blk[b].pos,
                                          !.pc = "release"]]
  /\ UNCHANGED <<notmemvars, state, glock, alock, ablock, avail, mapped, block_count,
                 live, child, nalloc, after_fork>>

\* fio_mem___arena_release and the return of fio_malloc; fio_realloc2 goes on
\* to free the old block
arena_release(t) ==
  /\ Alive(t)
  /\ th[t].pc = "release"
  /\ alock' = [alock EXCEPT ![th[t].arena] = fio_unlock(@)]
  /\ live' = live \cup {[b |-> th[t].b, pos |-> th[t].i, len |-> th[t].units]}
  /\ th' = [th EXCEPT ![t] = [@ EXCEPT !.b = th[t].old, !.old = NULL, !.i = 0,
                                       !.units = 0, !.ret = "idle",
                                       !.pc = IF th[t].old # NULL THEN "bf_sub"
                                              ELSE "idle"]]
  /\ UNCHANGED <<notmemvars, state, glock, ablock, blk, avail, mapped, block_count, child, nalloc, after_fork>>

\* fio_free(ptr) of a small allocation
fio_free(t, s) ==
  /\ Running /\ Alive(t)
  /\ th[t].pc = "idle"
  /\ s \in live
  /\ live' = live \ {s}
  /\ th' = [th EXCEPT ![t] = [@ EXCEPT !.b = s.b, !.ret = "idle",
                                       !.pc = "bf_sub"]]
  /\ UNCHANGED <<notmemvars, state, glock, alock, ablock, blk, avail, mapped,
                 block_count, child, nalloc, after_fork>>

\* the thread's locals once fio_mem___block_free returns
BlockFreeReturn(r) ==
  [r EXCEPT !.b = NULL, !.pc = r.ret, !.ret = "idle",
            !.units = IF r.ret = "idle" THEN 0 ELSE r.units]

\* fio_mem___block_free: "block slice still in use", on the value the atomic
\* decrement returns
block_free_in_use_never(hdr, b) == FALSE

block_free_in_use(hdr, b) == U16(hdr[b].ref - 1) # 0

\* fio_mem___block_free: the atomic decrement of the slice count
block_free_sub(t) ==
  /\ Alive(t)
  /\ th[t].pc = "bf_sub"
  /\ LET b == th[t].b IN
     IF b = NULL
       THEN /\ th' = [th EXCEPT ![t] = BlockFreeReturn(@)]
            /\ UNCHANGED blk
       ELSE /\ blk' = [blk EXCEPT ![b].ref = U16(@ - 1)]
            /\ th' = [th EXCEPT ![t] = IF block_free_in_use(blk, b)
                                         THEN BlockFreeReturn(@)
                                         ELSE [@ EXCEPT !.pc = "bf_lock"]]
  /\ UNCHANGED <<notmemvars, state, glock, alock, ablock, avail, mapped, block_count,
                 live, child, nalloc, after_fork>>

block_free_lock(t) == fio_lock_global(t, "bf_lock", "bf_push")

\* fio_mem___block_free under the global lock: push the block and drop it
\* from its super-block's root_ref
block_free_push(t) ==
  /\ Alive(t)
  /\ th[t].pc = "bf_push"
  /\ LET b == th[t].b
         r == fio_mem___block_root(blk, b) IN
     /\ avail' = Append(avail, b)
     /\ blk' = [blk EXCEPT ![r].root_ref = U16(@ - 1)]
     /\ th' = [th EXCEPT ![t] = [@ EXCEPT !.b = r,
                                          !.pc = IF U16(blk[r].root_ref - 1) # 0
                                                   THEN "bf_unlock"
                                                   ELSE "bf_remove"]]
  /\ UNCHANGED <<notmemvars, state, glock, alock, ablock, mapped, block_count, live, child, nalloc, after_fork>>

\* "block still has at least one used slice": unlock and return
block_free_unlock(t) ==
  /\ Alive(t)
  /\ th[t].pc = "bf_unlock"
  /\ glock' = fio_unlock(glock)
  /\ th' = [th EXCEPT ![t] = BlockFreeReturn(@)]
  /\ UNCHANGED <<notmemvars, state, alock, ablock, blk, avail, mapped, block_count,
                 live, child, nalloc, after_fork>>

\* "remove all block slices from memory pool"
block_free_remove(t) ==
  /\ Alive(t)
  /\ th[t].pc = "bf_remove"
  /\ avail' = SeqRemove(avail, th[t].b .. (th[t].b + BlocksPerAllocation - 1))
  /\ th' = [th EXCEPT ![t].pc = "bf_unlock2"]
  /\ UNCHANGED <<notmemvars, state, glock, alock, ablock, blk, mapped, block_count,
                 live, child, nalloc, after_fork>>

block_free_unlock2(t) == fio_unlock_global(t, "bf_unlock2", "bf_pagefree")

\* "return memory to system": FIO_MEM_PAGE_FREE and the debug counter
block_free_pagefree(t) ==
  /\ Alive(t)
  /\ th[t].pc = "bf_pagefree"
  /\ mapped' = mapped \ {SBOf(th[t].b)}
  /\ blk' = [b \in Blocks |-> IF b \in SBBlocks(SBOf(th[t].b)) THEN ZeroBlock
                              ELSE blk[b]]
  /\ block_count' = block_count - 1
  /\ th' = [th EXCEPT ![t] = BlockFreeReturn(@)]
  /\ UNCHANGED <<notmemvars, state, glock, alock, ablock, avail, live, child, nalloc, after_fork>>

(***************************************************************************)
(* fio_mem___destroy, the destructor: runs at exit, when no thread is in   *)
(* the allocator.  For every arena: take its block, clear the pointer,     *)
(* reset the lock and fio_mem___block_free the block; then deallocate the  *)
(* state.                                                                  *)
(***************************************************************************)
fio_mem___destroy(t) ==
  /\ Running /\ Alive(t)
  /\ \A u \in Threads : Alive(u) => th[u].pc = "idle"
  /\ th' = [th EXCEPT ![t] = [@ EXCEPT !.pc = "destroy", !.i = 1]]
  /\ UNCHANGED <<notmemvars, state, glock, alock, ablock, blk, avail, mapped, block_count,
                 live, child, nalloc, after_fork>>

\* the block fio_mem___destroy frees for arena a
destroy_leaks_block(a) == NULL

destroy_block(a) == ablock[a]

destroy_arena(t) ==
  /\ Alive(t)
  /\ th[t].pc = "destroy"
  /\ LET a == th[t].i IN
     IF a <= NCores
       THEN /\ ablock' = [ablock EXCEPT ![a] = NULL]
            /\ alock' = [alock EXCEPT ![a] = 0]
            /\ th' = [th EXCEPT ![t] = [@ EXCEPT !.b = destroy_block(a),
                                                 !.i = a + 1,
                                                 !.ret = "destroy",
                                                 !.pc = "bf_sub"]]
            /\ UNCHANGED state
       ELSE /\ state' = FALSE
            /\ th' = [th EXCEPT ![t] = [@ EXCEPT !.arena = 0, !.i = 0,
                                                 !.pc = "idle"]]
            /\ UNCHANGED <<ablock, alock>>
  /\ UNCHANGED <<notmemvars, glock, blk, avail, mapped, block_count, live, child, nalloc, after_fork>>

(***************************************************************************)
(* fork() called by thread t: in the child only t exists; the other        *)
(* threads stay wherever they were, with whatever locks they held.         *)
(***************************************************************************)
Fork(t) ==
  /\ Running
  /\ child = 0
  /\ th[t].pc = "idle"
  /\ child' = t
  /\ UNCHANGED <<notmemvars, state, glock, alock, ablock, blk, avail, mapped, block_count,
                 live, th, nalloc, after_fork>>

\* the lock values fio_malloc_after_fork leaves behind
after_fork_keeps_global(g) == g

after_fork_global(g) == 0

\* void fio_malloc_after_fork(void)
fio_malloc_after_fork(t) ==
  /\ state
  /\ child = t
  /\ th[t].pc = "idle"
  /\ ~after_fork
  /\ alock' = [a \in Arenas |-> 0]
  /\ glock' = after_fork_global(glock)
  /\ after_fork' = TRUE
  /\ UNCHANGED <<notmemvars, state, ablock, blk, avail, mapped, block_count, live, th,
                 nalloc, child>>

MemStep(t) ==
  \/ \E size \in Sizes : fio_malloc(t, size)
  \/ \E s \in live, size \in Sizes : fio_realloc(t, s, size)
  \/ \E s \in live : fio_free(t, s)
  \/ arena_aquire_scan(t)
  \/ block_slice(t)
  \/ block_rotate_lock(t)
  \/ block_rotate_pop(t)
  \/ block_rotate_unlock(t)
  \/ block_rotate_init(t)
  \/ block_slice_take(t)
  \/ arena_release(t)
  \/ block_free_sub(t)
  \/ block_free_lock(t)
  \/ block_free_push(t)
  \/ block_free_unlock(t)
  \/ block_free_remove(t)
  \/ block_free_unlock2(t)
  \/ block_free_pagefree(t)

(***************************************************************************)
(* Dynamic array (FIO_ARRAY_NAME): constants and types.  The array is      *)
(* compiled for one of the two element types of the test suite: `int`      *)
(* (4 bytes, the default all-zero invalid value) and `uint8_t` (1 byte,     *)
(* invalid value 0xFF, a destructor that writes the invalid value).        *)
(* The memory is a sequence of slots, slot i of the C array at ary[i + 1]. *)
(***************************************************************************)
ArrayTypes == {"int", "uint8_t"}
AValues == 1..NAryValues

\* sizeof(FIO_ARRAY_TYPE)
sizeof(T) == IF T = "int" THEN 4 ELSE 1
FIO_ARRAY_TYPE_INVALID(T) == IF T = "int" THEN 0 ELSE 255
\* set only when the invalid value is the default one
FIO_ARRAY_TYPE_INVALID_SIMPLE(T) == T = "int"
\* FIO_ARRAY_TYPE_DESTROY(obj): nothing by default, obj = invalid for uint8_t
FIO_ARRAY_TYPE_DESTROY(T, obj) ==
  IF T = "int" THEN obj ELSE FIO_ARRAY_TYPE_INVALID(T)
\* (alternative: a comparison that never matches)
compare_never(x, y) == FALSE
FIO_ARRAY_TYPE_COMPARE(x, y) == x = y
FIO_ARRAY_PADDING == 4
\* FIO_ARRAY_EXPONENTIAL is 0: FIO_ARRAY_ADD2CAPA is FIO_ARRAY_PADDING
FIO_ARRAY_ADD2CAPA(capa) == FIO_ARRAY_PADDING

FIO_ARRAY_SIZE2WORDS(T, size) ==
  IF sizeof(T) % 2 = 1 THEN (size - (size % 16)) + 16
  ELSE IF (sizeof(T) \div 2) % 2 = 1 THEN (size - (size % 8)) + 8
  ELSE IF (sizeof(T) \div 4) % 2 = 1 THEN (size - (size % 4)) + 4
  ELSE IF (sizeof(T) \div 8) % 2 = 1 THEN (size - (size % 2)) + 2
  ELSE size

\* { 0 }: no memory, no capacity, no elements
FIO_ARRAY_INIT == [ary |-> <<>>, capa |-> 0, start |-> 0, end |-> 0]

\* what memory not yet written may hold: zero, or a stale value
JunkValues == {0, 1}

NoAryResult ==
  [op |-> "none", arg |-> 0, data |-> 0, rv |-> 0, old |-> 0,
   before |-> <<>>, mem |-> FIO_ARRAY_INIT, calls |-> <<>>]

AryInit(T) ==
  /\ arr = FIO_ARRAY_INIT
  /\ atype = T
  /\ astate = "ok"
  /\ ares = NoAryResult
  /\ anops = 0

(***************************************************************************)
(* Hash map for bigger items (FIO_HMAP_NAME): constants and types.  The    *)
(* map is compiled as in the test suite: size_t keys and values, keys      *)
(* compared with ==, so FIO_HMAP_NO_COLLISIONS is not set.                 *)
(***************************************************************************)
FIO_HMAP_INVALID_POS == -1
FIO_HMAP_MAX_SEEK == 96
FIO_HMAP_CUCKOO_STEP == 1140337931
\* ~(uint64_t)0, the hash used in place of a hash of zero
AllOnes64 == -1

HKeys == 0..(NHKeys - 1)
HValues == 1..2
\* the test's HASHOFi(i)
HASHOFi(i) == i

\* (FIO_HMAP_TYPE){0}
ZeroValue == 0
ZeroData == [hash |-> 0, key |-> 0, value |-> 0]
ZeroSlot == [hash |-> 0, pos |-> 0]

\* { 0 }: neither map nor data, no bits
FIO_HMAP_INIT ==
  [has_map |-> FALSE, has_data |-> FALSE, map |-> <<>>, data |-> <<>>,
   count |-> 0, offset |-> 0, bits |-> 0, attacked |-> 0, collisions |-> 0]

NoHResult ==
  [op |-> "none", hash |-> 0, key |-> 0, value |-> 0, rv |-> 0, old |-> 0]

HMapInit ==
  /\ hm = FIO_HMAP_INIT
  /\ hstate = "ok"
  /\ hres = NoHResult
  /\ habs = [k \in HKeys |-> 0]
  /\ hdup = FALSE
  /\ hnops = 0

(***************************************************************************)
(* Dynamic string (FIO_STRING_NAME): constants and types.  The container   *)
(* is 48 bytes long (64 bit build, FIO_STRING_NO_ALIGN not set): a string  *)
(* of up to 46 bytes lives inside it, from its second byte on.  Bytes are  *)
(* numbers in 0..255, addresses are numbers, memory offsets count from 0.  *)
(***************************************************************************)
\* sizeof(fio_string_s)
SizeofString == 48
\* sizeof(*s) - 2
FIO_STRING_SMALL_CAPA == SizeofString - 2
\* the address of FIO_STRING_SMALL_DATA(s)
ContainerData == 1
\* sizeof(long double) - 1
LongDoubleMask == 15

\* { .special = 1 }; the bytes of the container are zero
FIO_STRING_INIT ==
  [special |-> 1, capa |-> 0, len |-> 0, data |-> NULL,
   mem |-> [k \in 1..(SizeofString - 1) |-> 0]]

NoInfo == [capa |-> 0, len |-> 0, data |-> NULL]

StrInit ==
  /\ str = FIO_STRING_INIT
  /\ sfresh = ContainerData + 1
  /\ sstate = "ok"
  /\ sres = [op |-> "none", rv |-> NoInfo]
  /\ snops = 0

\* ---- the JSON parser ----
\* (alternative: the depth the comment above JSON_MAX_DEPTH speaks of)
JSON_MAX_DEPTH_32 == 32
\* the value the header defines when the build does not
JSON_MAX_DEPTH == 31
\* `nesting` is a uint32_t: bit 1 of the tuple is the lowest bit
NestingBits == 32
\* (fio_json_parser_s){0}
FIO_JSON_INIT ==
  [nesting |-> [b \in 1..NestingBits |-> 0], depth |-> 0, expect |-> 0]

\* an 8-byte aligned buffer between zero bytes, callbacks that return 0
JDefaultEnv == [before |-> 0, past |-> <<>>, addr |-> 0, start_ret |-> 0]

\* the FIOBJ that is no object
FIOBJ_INVALID == [class |-> 0, ptr |-> 0]

NoJsonResult ==
  [op |-> "none", input |-> <<>>, env |-> JDefaultEnv, calls |-> <<>>,
   rv |-> 0, failed |-> FALSE, last |-> 0, value |-> FIOBJ_INVALID,
   top |-> FIOBJ_INVALID, eq |-> 0, same |-> FALSE]

ArenaThreads == 1 .. NArenaThreads

\* no thread has used an arena yet (fio_mem___arena is NULL), no lock is set
ArenaInit ==
  /\ ath = [t \in ArenaThreads |-> [pc |-> "idle", arena |-> 0, i |-> 0]]
  /\ arenalock = [a \in Arenas |-> 0]

ListNodes == 1 .. NListNodes

\* NULL, and the address of the head among the addresses of the nodes
LNull == 0 - 1
LHead == 0

\* FIO_LIST_INIT(ls): the head points at itself; no node is allocated
FIO_LIST_INIT ==
  [next |-> [n \in {LHead} \cup ListNodes |->
               IF n = LHead THEN LHead ELSE LNull],
   prev |-> [n \in {LHead} \cup ListNodes |->
               IF n = LHead THEN LHead ELSE LNull],
   mem |-> [n \in ListNodes |-> "none"],
   st |-> "ok"]

NoEach == [on |-> FALSE, pos |-> LNull, nxt |-> LNull, entry |-> <<>>,
           seen |-> <<>>, removed |-> {}]

ListInit ==
  /\ lmem = FIO_LIST_INIT
  /\ labs = <<>>
  /\ leach = NoEach
  /\ lres = [op |-> "none", node |-> LNull, rv |-> LNull]
  /\ lnops = 0

JsonInit ==
  /\ jp = FIO_JSON_INIT
  /\ jprev = 0
  /\ jres = NoJsonResult
  /\ jnops = 0

TypesInit ==
  AryInit("int") /\ HMapInit /\ StrInit /\ JsonInit /\ ArenaInit /\ ListInit

\* every subsystem in its initial state
Init == MemInit /\ RefInit /\ MapInit(TRUE) /\ TypesInit

(***************************************************************************)
(* Reference counting wrapper (FIO_REFERENCE_NAME).                        *)
(***************************************************************************)
\* new2: allocates the wrapper with a reference count of 1; the caller owns
\* that reference
ref_new2(t) ==
  /\ o_mem = "none"
  /\ rpc[t] = "idle"
  /\ o_mem' = "allocated"
  /\ o_ref' = 1
  /\ held' = [held EXCEPT ![t] = 1]
  /\ UNCHANGED <<memvars, mapvars, typevars, was_destroyed, meta_was_destroyed, rpc, nup>>

\* up_ref: fio_atomic_add(&o->ref, 1); the new reference is handed to u
ref_up_ref(t, u) ==
  /\ nup < MaxUpRef
  /\ rpc[t] = "idle"
  /\ held[t] > 0
  /\ o_ref' = o_ref + 1
  /\ held' = [held EXCEPT ![u] = @ + 1]
  /\ nup' = nup + 1
  /\ UNCHANGED <<memvars, mapvars, typevars, o_mem, was_destroyed, meta_was_destroyed, rpc>>

\* the result of free2's test: is the object still referenced
free2_never_in_use(new) == FALSE

free2_in_use(new) == new # 0

\* free2 up to its test: fio_atomic_sub(&o->ref, 1), one atomic step that
\* returns the new value
ref_free2(t) ==
  /\ rpc[t] = "idle"
  /\ held[t] > 0
  /\ held' = [held EXCEPT ![t] = @ - 1]
  /\ o_ref' = o_ref - 1
  /\ rpc' = [rpc EXCEPT ![t] = IF free2_in_use(o_ref') THEN "idle"
                                                       ELSE "destroy"]
  /\ UNCHANGED <<memvars, mapvars, typevars, o_mem, was_destroyed, meta_was_destroyed, nup>>

\* FIO_REFERENCE_DESTROY(o->wrapped)
ref_destroy_wrapped(t) ==
  /\ rpc[t] = "destroy"
  /\ was_destroyed' = was_destroyed + 1
  /\ rpc' = [rpc EXCEPT ![t] = "destroy_meta"]
  /\ UNCHANGED <<memvars, mapvars, typevars, o_mem, o_ref, meta_was_destroyed, held, nup>>

\* FIO_REFERENCE_METADATA_DESTROY(o->metadata)
ref_destroy_metadata(t) ==
  /\ rpc[t] = "destroy_meta"
  /\ meta_was_destroyed' = meta_was_destroyed + 1
  /\ rpc' = [rpc EXCEPT ![t] = "free"]
  /\ UNCHANGED <<memvars, mapvars, typevars, o_mem, o_ref, was_destroyed, held, nup>>

\* FIO_MEM_FREE_(o, sizeof(*o)); return 1
ref_free(t) ==
  /\ rpc[t] = "free"
  /\ o_mem' = "freed"
  /\ rpc' = [rpc EXCEPT ![t] = "idle"]
  /\ UNCHANGED <<memvars, mapvars, typevars, o_ref, was_destroyed, meta_was_destroyed, held, nup>>

RefNext ==
  \/ \E t \in Holders : ref_new2(t)
  \/ \E t, u \in Holders : ref_up_ref(t, u)
  \/ \E t \in Holders : ref_free2(t)
  \/ \E t \in Holders : ref_destroy_wrapped(t)
  \/ \E t \in Holders : ref_destroy_metadata(t)
  \/ \E t \in Holders : ref_free(t)

SpecRef == Init /\ [][RefNext]_vars

(***************************************************************************)
(* Ordered hash map / set (FIO_MAP_NAME): the internal functions, each a   *)
(* function from the container (and arguments) to the container it leaves  *)
(* behind and the value it returns.                                        *)
(***************************************************************************)
\* F applied to the value of v, which is computed once
With(v, F(_)) == CHOOSE y \in {F(x) : x \in {v}} : TRUE

\* FIO_MAP_OBJ_COMPARE: the user's comparison, on the key of a couplet (hash
\* map) or on the identifying part of an element (set)
FIO_MAP_OBJ_COMPARE(a, b) == a.key = b.key

\* the hash as the internal functions use it: FIO_MAP_HASH_INVALID is
\* replaced by ~0
ValidHash(hash) ==
  IF hash = FIO_MAP_HASH_INVALID THEN HashAllOnes ELSE hash

\* the probing loop of _find_map_pos; tried is the number of slots the loop
\* looked at, full the number of full collisions it met
RECURSIVE Seek(_, _, _, _, _, _)
Seek(mm, obj, hash, pos_key, attempts, full_attack_counter) ==
  LET mask == Pow2(mm.used_bits) - 1
      max_seek == IF mask > FIO_MAP_MAX_SEEK THEN FIO_MAP_MAX_SEEK ELSE mask
      pos == mm.map[pos_key]
      next_key == BitAnd(pos_key + FIO_MAP_CUCKOO_STEPS, mask)
  IN IF attempts > max_seek
       THEN [m |-> mm, pos |-> PosNULL, tried |-> attempts,
             full |-> full_attack_counter]
     ELSE IF pos.hash = FIO_MAP_HASH_INVALID
       THEN [m |-> mm, pos |-> pos_key, tried |-> attempts + 1,
             full |-> full_attack_counter]
     ELSE IF pos.hash = hash
       THEN IF \/ pos.next = NoPos
               \/ mm.under_attack = 1
               \/ FIO_MAP_OBJ_COMPARE(pos.obj, obj)
              THEN [m |-> mm, pos |-> pos_key, tried |-> attempts + 1,
                    full |-> full_attack_counter]
              ELSE LET c == full_attack_counter + 1
                       m1 == [mm EXCEPT !.has_collisions = BitOr(@, 1),
                                        !.under_attack =
                                           IF c >= FIO_MAP_MAX_FULL_COLLISIONS
                                             THEN 1 ELSE @]
                   IN Seek(m1, obj, hash, next_key, attempts + 1, c)
     ELSE Seek(mm, obj, hash, next_key, attempts + 1, full_attack_counter)

\* _find_map_pos on a container that needs no remapping first
SeekPos(mm, obj, hash0) ==
  LET hash == ValidHash(hash0)
      mask == Pow2(mm.used_bits) - 1
  IN IF ~mm.has_map THEN [m |-> mm, pos |-> PosNULL, tried |-> 0,
                           full |-> 0]
     ELSE Seek(mm, obj, hash,
               BitAnd(FIO_MAP_HASH_OFFSET(hash, mm.used_bits), mask), 0, 0)

\* a link that leaves the root's prev where it was
link_node_one_way(mm, n) ==
  IF mm.head = NoPos
    THEN [mm EXCEPT !.map[n].prev = n, !.map[n].next = n, !.head = n]
    ELSE LET m1 == [mm EXCEPT !.map[n].next = mm.head]
             m2 == [m1 EXCEPT !.map[n].prev = m1.map[mm.head].prev]
         IN [m2 EXCEPT !.map[m2.map[n].prev].next = n]

\* ___link_node: n becomes the tail of the ring
___link_node(mm, n) ==
  IF mm.head = NoPos
    THEN [mm EXCEPT !.map[n].prev = n, !.map[n].next = n, !.head = n]
    ELSE LET r == mm.head
             m1 == [mm EXCEPT !.map[n].next = mm.head]
             m2 == [m1 EXCEPT !.map[n].prev = m1.map[r].prev]
             m3 == [m2 EXCEPT !.map[m2.map[n].prev].next = n]
         IN [m3 EXCEPT !.map[r].prev = n]

\* the alternative to the test below: the hole of a removed node is always
\* kept (with it C4, C6, C7 and C8 hold within the bounds)
unlink_keeps_hole(mm, n) == FALSE

\* ___unlink_node gives up the hole of the node it removes when that node is
\* the tail of the ring ("last item in map, no need to keep the hole")

unlink_clears_hole(mm, n) == mm.map[n].next = mm.head

\* ___unlink_node
___unlink_node(mm, n) ==
  LET m1 == [mm EXCEPT !.map[mm.map[n].next].prev = mm.map[n].prev]
      m2 == [m1 EXCEPT !.map[m1.map[n].prev].next = m1.map[n].next]
      m3 == IF unlink_clears_hole(m2, n)
              THEN [m2 EXCEPT !.map[n].hash = FIO_MAP_HASH_INVALID]
              ELSE m2
      m4 == IF m3.head = n
              THEN [m3 EXCEPT !.head = IF m3.map[n].next = n
                                         THEN NoPos ELSE m3.map[n].next]
              ELSE m3
  IN [m4 EXCEPT !.map[n].next = NoPos, !.map[n].prev = NoPos]

\* the copying loop of _remap2bits, from node i of the old table; rc is "ok",
\* "full" (no room in dest, the function returns -1), "hang" when the walk
\* over the old ring cannot reach its head again, "crash" when it leaves the
\* table
RECURSIVE RemapLoop(_, _, _, _)
RemapLoop(mm, dest, i, steps) ==
  IF i \notin DOMAIN mm.map THEN [m |-> mm, rc |-> "crash"]
  ELSE IF steps > Pow2(MaxTableBits) + 1 THEN [m |-> mm, rc |-> "hang"]
  ELSE
    LET src == mm.map[i] IN
    With(SeekPos(dest, src.obj, src.hash), LAMBDA f :
      IF f.pos = PosNULL THEN [m |-> mm, rc |-> "full"]
      ELSE With(___link_node([f.m EXCEPT !.map[f.pos].hash = src.hash,
                                         !.map[f.pos].obj = src.obj], f.pos),
                LAMBDA d2 :
                  With([d2 EXCEPT !.count = @ + 1], LAMBDA d3 :
                    IF src.next = mm.head THEN [m |-> d3, rc |-> "ok"]
                    ELSE RemapLoop(mm, d3, src.next, steps + 1))))

\* _remap2bits
_remap2bits(mm, bits) ==
  LET dest == [has_map |-> TRUE, map |-> NewTable(bits), head |-> NoPos,
               count |-> 0, used_bits |-> bits, has_collisions |-> 0,
               under_attack |-> mm.under_attack]
  IN IF ~mm.has_map \/ mm.head = NoPos THEN [m |-> dest, rc |-> "ok"]
     ELSE With(dest, LAMBDA d : RemapLoop(mm, d, mm.head, 0))

\* _find_map_pos: remaps first when a removal followed a full collision
_find_map_pos(mm, obj, hash) ==
  IF ~mm.has_map THEN [m |-> mm, pos |-> PosNULL, rc |-> "ok"]
  ELSE With(IF BitAnd(mm.has_collisions, 2) # 0
              THEN _remap2bits(mm, mm.used_bits)
              ELSE [m |-> mm, rc |-> "ok"],
            LAMBDA r :
              IF r.rc \in {"hang", "crash"}
                THEN [m |-> r.m, pos |-> PosNULL, rc |-> r.rc]
                ELSE With(SeekPos(r.m, obj, hash), LAMBDA f :
                       [m |-> f.m, pos |-> f.pos, rc |-> "ok"]))

\* FIO_MAP_OBJ2TYPE: the value of a couplet (hash map), the element itself
\* (set); reported here as a record in both cases
FIO_MAP_OBJ2TYPE(o) == IF keyed THEN [key |-> 0, value |-> o.value] ELSE o

\* what a call leaves in *old when it does not write to it
OldUntouched == [key |-> -1, value |-> -1]

\* the couplet an overwrite leaves in the node: the old key, the new value
overwrite_keeps_value(stored, obj) == stored

overwrite_value(stored, obj) == [stored EXCEPT !.value = obj.value]

\* _insert_or_overwrite from the label found_pos on
FoundPos(mm, pos, obj, hash, overwrite) ==
  LET n == mm.map[pos] IN
  IF n.hash = FIO_MAP_HASH_INVALID \/ n.next = NoPos
    THEN \* empty slot
         With(___link_node([mm EXCEPT !.map[pos].hash = hash,
                                      !.map[pos].obj = obj], pos),
              LAMBDA m2 : [m |-> [m2 EXCEPT !.count = @ + 1], pos |-> pos,
                           old |-> ZeroObj, rc |-> "ok"])
    ELSE IF overwrite = 1
      THEN [m |-> IF keyed
                    THEN [mm EXCEPT !.map[pos].obj = overwrite_value(@, obj)]
                    ELSE [mm EXCEPT !.map[pos].obj = obj],
            pos |-> pos, old |-> FIO_MAP_OBJ2TYPE(n.obj), rc |-> "ok"]
      ELSE [m |-> mm, pos |-> pos, old |-> OldUntouched, rc |-> "ok"]

NotFound(mm, rc) == [m |-> mm, pos |-> PosNULL, old |-> OldUntouched, rc |-> rc]

\* what _insert_or_overwrite does with the answer f of _find_map_pos; Else
\* is the path taken when no node was found
AfterFind(f, obj, hash, overwrite, Else(_)) ==
  IF f.rc # "ok" THEN NotFound(f.m, f.rc)
  ELSE IF f.pos # PosNULL THEN FoundPos(f.m, f.pos, obj, hash, overwrite)
  ELSE Else(f.m)

\* the last resort of _insert_or_overwrite: under_attack is set
InsertUnderAttack(mm, obj, hash, overwrite) ==
  With(_find_map_pos([mm EXCEPT !.under_attack = 1], obj, hash), LAMBDA f :
    AfterFind(f, obj, hash, overwrite, LAMBDA m1 : NotFound(m1, "ok")))

\* the loop of _insert_or_overwrite that doubles the table up to 3 times;
\* rc is "toobig" when the table would outgrow the model
RECURSIVE InsertGrow(_, _, _, _, _)
InsertGrow(mm, obj, hash, overwrite, i) ==
  IF i >= 3 THEN InsertUnderAttack(mm, obj, hash, overwrite)
  ELSE IF mm.used_bits + 1 > MaxTableBits THEN NotFound(mm, "toobig")
  ELSE With(_remap2bits(mm, mm.used_bits + 1), LAMBDA r :
         IF r.rc \in {"hang", "crash"} THEN NotFound(r.m, r.rc)
         ELSE With(_find_map_pos(r.m, obj, hash), LAMBDA f :
                AfterFind(f, obj, hash, overwrite, LAMBDA m1 :
                  InsertGrow(m1, obj, hash, overwrite, i + 1))))

\* _insert_or_overwrite from the label remap_and_find_pos on
RemapAndFindPos(mm, obj, hash, overwrite) ==
  IF mm.count * 2 <= Pow2(mm.used_bits)
    THEN With(_remap2bits(mm, mm.used_bits), LAMBDA r :
           IF r.rc \in {"hang", "crash"} THEN NotFound(r.m, r.rc)
           ELSE With(_find_map_pos(r.m, obj, hash), LAMBDA f :
                  AfterFind(f, obj, hash, overwrite, LAMBDA m1 :
                    InsertGrow(m1, obj, hash, overwrite, 0))))
    ELSE InsertGrow(mm, obj, hash, overwrite, 0)

\* _insert_or_overwrite
_insert_or_overwrite(mm, obj, hash0, overwrite) ==
  LET hash == ValidHash(hash0) IN
  With(_find_map_pos(mm, obj, hash), LAMBDA f :
    AfterFind(f, obj, hash, overwrite, LAMBDA m1 :
      RemapAndFindPos(m1, obj, hash, overwrite)))

\* _remove from the node found on
RemoveFound(mm, pos) ==
  With(___unlink_node(mm, pos), LAMBDA m1 :
    With([m1 EXCEPT !.count = @ - 1,
                    !.has_collisions = U8(BitOr(@, 2 * @))], LAMBDA m2 :
      With(IF m2.used_bits >= 8 /\ m2.count * 8 < Pow2(m2.used_bits)
             THEN _remap2bits(m2, m2.used_bits - 1)
             ELSE [m |-> m2, rc |-> "ok"], LAMBDA r :
        [m |-> r.m, rv |-> 0, old |-> FIO_MAP_OBJ2TYPE(mm.map[pos].obj),
         rc |-> IF r.rc \in {"hang", "crash"} THEN r.rc ELSE "ok"])))

\* _remove
_remove(mm, obj, hash0) ==
  With(_find_map_pos(mm, obj, ValidHash(hash0)), LAMBDA f :
    IF f.rc # "ok" THEN [m |-> f.m, rv |-> -1, old |-> ZeroObj, rc |-> f.rc]
    ELSE IF \/ f.pos = PosNULL
            \/ f.m.map[f.pos].hash = FIO_MAP_HASH_INVALID
            \/ f.m.map[f.pos].next = NoPos
      THEN [m |-> f.m, rv |-> -1, old |-> ZeroObj, rc |-> "ok"]
      ELSE RemoveFound(f.m, f.pos))

\* find (hash map and set): the stored value or FIO_MAP_TYPE_INVALID
Find(mm, obj, hash) ==
  With(_find_map_pos(mm, obj, hash), LAMBDA f :
    [m |-> f.m, rc |-> f.rc,
     rv |-> IF \/ f.pos = PosNULL
               \/ f.m.map[f.pos].hash = FIO_MAP_HASH_INVALID
               \/ f.m.map[f.pos].next = NoPos
              THEN ZeroObj
              ELSE FIO_MAP_OBJ2TYPE(f.m.map[f.pos].obj)])

\* the walk of FIO_MAP_EACH: the nodes visited; rc is "hang" when the walk
\* cannot come back to the head, "crash" when it leaves the table
RECURSIVE EachWalk(_, _, _, _)
EachWalk(mm, pos, acc, steps) ==
  IF pos \notin DOMAIN mm.map THEN [at |-> acc, rc |-> "crash"]
  ELSE IF steps > 2 * Pow2(MaxTableBits) THEN [at |-> acc, rc |-> "hang"]
  ELSE LET nxt == mm.map[pos].next
       IN IF nxt = mm.head THEN [at |-> Append(acc, pos), rc |-> "ok"]
          ELSE EachWalk(mm, nxt, Append(acc, pos), steps + 1)

\* FIO_MAP_EACH(m, pos): the nodes visited, and pos->obj of each
FIO_MAP_EACH(mm) ==
  IF ~mm.has_map \/ mm.head = NoPos
    THEN [at |-> <<>>, seen |-> <<>>, rc |-> "ok"]
    ELSE With(EachWalk(mm, mm.head, <<>>, 0), LAMBDA w :
           [at |-> w.at, rc |-> w.rc,
            seen |-> [i \in 1..Len(w.at) |-> mm.map[w.at[i]].obj]])

\* each: the first loop skips start_at nodes, the second calls the task on
\* every node up to the count of the map
RECURSIVE EachSkip(_, _, _)
EachSkip(mm, pos, n) ==
  IF n = 0 THEN pos
  ELSE IF pos \notin DOMAIN mm.map THEN NoPos
  ELSE EachSkip(mm, mm.map[pos].next, n - 1)

RECURSIVE EachTask(_, _, _, _)
EachTask(mm, pos, count, acc) ==
  IF count >= mm.count THEN [seen |-> acc, rv |-> count, rc |-> "ok"]
  ELSE IF pos \notin DOMAIN mm.map
    THEN [seen |-> acc, rv |-> count, rc |-> "crash"]
  ELSE EachTask(mm, mm.map[pos].next, count + 1, Append(acc, mm.map[pos].obj))

each(mm, start_at0) ==
  LET start_at == IF start_at0 < 0 THEN mm.count + start_at0 ELSE start_at0
  IN IF start_at < 0 \/ start_at >= mm.count
       THEN [seen |-> <<>>, rv |-> mm.count, rc |-> "ok"]
       ELSE EachTask(mm, EachSkip(mm, mm.head, start_at), start_at, <<>>)

(***************************************************************************)
(* Ordered hash map / set: the entries a caller expects to be stored.      *)
(***************************************************************************)
AbsPos(a, k) ==
  IF \E i \in 1..Len(a) : a[i].key = k
    THEN CHOOSE i \in 1..Len(a) : a[i].key = k
    ELSE 0

AbsHas(a, k) == AbsPos(a, k) # 0

\* insert: a new key goes to the end, a stored key keeps its place and
\* takes the new value when replace is set
AbsPut(a, k, v, replace) ==
  IF AbsHas(a, k)
    THEN IF replace THEN [a EXCEPT ![AbsPos(a, k)].value = v] ELSE a
    ELSE Append(a, [key |-> k, value |-> v])

AbsDel(a, k) ==
  IF AbsHas(a, k)
    THEN [i \in 1..(Len(a) - 1) |-> IF i < AbsPos(a, k) THEN a[i] ELSE a[i + 1]]
    ELSE a

AbsPop(a) == IF a = <<>> THEN a ELSE SubSeq(a, 1, Len(a) - 1)

(***************************************************************************)
(* Ordered hash map / set: the API, one action per call.                   *)
(***************************************************************************)
\* the container can be called: the last call returned
Callable == mstate = "ok" /\ nops < MaxOps

\* how a call ends: it returns, or it does not
Ended(rc) == IF rc \in {"hang", "crash"} THEN rc ELSE "ok"

Result(op, k, v, rv, code, old, seen) ==
  [op |-> op, key |-> k, value |-> v, rv |-> rv, code |-> code, old |-> old,
   seen |-> seen]

\* insert / overwrite of the API on top of _insert_or_overwrite; the API of
\* the hash map and insert of the set read pos->obj of the node returned
Insert(op, k, v, overwrite, replace) ==
  \E r \in {_insert_or_overwrite(m, [key |-> k, value |-> v], HashOf(k),
                                overwrite)} :
     /\ Callable
     /\ r.rc # "toobig"
     /\ m' = r.m
     /\ mstate' = IF r.rc = "ok" /\ r.pos = PosNULL /\ op # "overwrite"
                    THEN "crash" ELSE Ended(r.rc)
     /\ res' = Result(op, k, v,
                      IF r.pos = PosNULL \/ op = "overwrite" THEN ZeroObj
                        ELSE FIO_MAP_OBJ2TYPE(r.m.map[r.pos].obj),
                      0, r.old, <<>>)
     /\ abs' = AbsPut(abs, k, v, replace)
     /\ nops' = nops + 1
  /\ UNCHANGED <<memvars, refvars, typevars, keyed>>

\* hash map: insert(m, hash, key, value, &old)
fio_map_insert(k, v) == keyed /\ Insert("insert", k, v, 1, TRUE)

\* set: insert(m, hash, obj)
fio_set_insert(k, v) == ~keyed /\ Insert("set_insert", k, v, 0, FALSE)

\* set: overwrite(m, hash, obj, &old)
fio_set_overwrite(k, v) == ~keyed /\ Insert("overwrite", k, v, 1, TRUE)

\* remove(m, hash, key, &old)
fio_map_remove(k) ==
  \E r \in {_remove(m, [key |-> k, value |-> 0], HashOf(k))} :
     /\ Callable
     /\ m' = r.m
     /\ mstate' = Ended(r.rc)
     /\ res' = Result("remove", k, 0, ZeroObj, r.rv, r.old, <<>>)
     /\ abs' = AbsDel(abs, k)
     /\ nops' = nops + 1
  /\ UNCHANGED <<memvars, refvars, typevars, keyed>>

\* find(m, hash, key)
fio_map_find(k) ==
  \E r \in {Find(m, [key |-> k, value |-> 0], HashOf(k))} :
     /\ Callable
     /\ m' = r.m
     /\ mstate' = Ended(r.rc)
     /\ res' = Result("find", k, 0, r.rv, 0, ZeroObj, <<>>)
     /\ nops' = nops + 1
  /\ UNCHANGED <<memvars, refvars, typevars, keyed, abs>>

\* pop(m): removes the last entry of the ring
fio_map_pop ==
  /\ Callable
  /\ IF m.count = 0 \/ m.head = NoPos
       THEN m' = m
       ELSE \E m1 \in {___unlink_node(m, m.map[m.head].prev)} :
              m' = [m1 EXCEPT !.count = @ - 1]
  /\ res' = Result("pop", 0, 0, ZeroObj, 0, ZeroObj, <<>>)
  /\ abs' = AbsPop(abs)
  /\ nops' = nops + 1
  /\ UNCHANGED <<memvars, refvars, typevars, keyed, mstate>>

\* rehash(m)
fio_map_rehash ==
  \E r \in {_remap2bits(m, m.used_bits)} :
     /\ Callable
     /\ m' = r.m
     /\ mstate' = Ended(r.rc)
     /\ res' = Result("rehash", 0, 0, ZeroObj,
                      IF r.rc = "full" THEN -1 ELSE 0, ZeroObj, <<>>)
     /\ nops' = nops + 1
  /\ UNCHANGED <<memvars, refvars, typevars, keyed, abs>>

\* the number of bits reserve picks for a capacity
RECURSIVE ReserveBits(_, _)
ReserveBits(capa, bits) ==
  IF capa > Pow2(bits) THEN ReserveBits(capa, bits + 1) ELSE bits

\* reserve(m, capa)
fio_map_reserve(capa) ==
  LET bits == ReserveBits(capa, m.used_bits + 1) IN
  \E r \in {IF capa <= Pow2(m.used_bits) THEN [m |-> m, rc |-> "ok"]
             ELSE _remap2bits(m, bits)} :
     /\ Callable
     /\ bits <= MaxBits
     /\ m' = r.m
     /\ mstate' = Ended(r.rc)
     /\ res' = Result("reserve", 0, capa, ZeroObj,
                      IF r.m.used_bits = 0 THEN 0 ELSE Pow2(r.m.used_bits),
                      ZeroObj, <<>>)
     /\ nops' = nops + 1
  /\ UNCHANGED <<memvars, refvars, typevars, keyed, abs>>

\* destroy(m): frees the table and re-initializes the container
fio_map_destroy ==
  /\ Callable
  /\ m' = FIO_MAP_INIT
  /\ res' = Result("destroy", 0, 0, ZeroObj, 0, ZeroObj, <<>>)
  /\ abs' = <<>>
  /\ nops' = nops + 1
  /\ UNCHANGED <<memvars, refvars, typevars, keyed, mstate>>

\* a loop over FIO_MAP_EACH(m, pos) that records pos->obj
fio_map_EACH ==
  \E r \in {FIO_MAP_EACH(m)} :
     /\ Callable
     /\ mstate' = Ended(r.rc)
     /\ res' = Result("EACH", 0, 0, ZeroObj, Len(r.seen), ZeroObj, r.seen)
     /\ nops' = nops + 1
  /\ UNCHANGED <<memvars, refvars, typevars, m, keyed, abs>>

\* each(m, start_at, task, arg) with a task that records its argument and
\* returns 0
fio_map_each(start_at) ==
  \E r \in {each(m, start_at)} :
     /\ Callable
     /\ mstate' = Ended(r.rc)
     /\ res' = Result("each", 0, start_at, ZeroObj, r.rv, ZeroObj, r.seen)
     /\ nops' = nops + 1
  /\ UNCHANGED <<memvars, refvars, typevars, m, keyed, abs>>

MapNext ==
  \/ \E k \in Keys, v \in Values : fio_map_insert(k, v)
  \/ \E k \in Keys, v \in Values : fio_set_insert(k, v)
  \/ \E k \in Keys, v \in Values : fio_set_overwrite(k, v)
  \/ \E k \in Keys : fio_map_remove(k)
  \/ \E k \in Keys : fio_map_find(k)
  \/ fio_map_pop
  \/ fio_map_rehash
  \/ \E capa \in {Pow2(MaxBits)} : fio_map_reserve(capa)
  \/ fio_map_destroy
  \/ fio_map_EACH
  \/ \E start_at \in {0, -1} : fio_map_each(start_at)

\* a hash map or a set, empty
InitMap == MemInit /\ RefInit /\ TypesInit /\ \E k \in BOOLEAN : MapInit(k)

SpecMap == InitMap /\ [][MapNext]_vars

\* ---- the set under attack: elements that all share one hash ----
AttackKeys == 1 .. NAttackKeys

\* the hash every element is inserted with: set_____test_insert(&m, 1, i + 1)
AttackHash == 1

\* turn i of the loop of the test: insert(&m, 1, i + 1), i the number of
\* calls made so far
attack_insert ==
  /\ mstate = "ok" /\ nops < NAttackKeys
  /\ \E r \in {_insert_or_overwrite(m, [key |-> nops + 1, value |-> nops + 1],
                                    AttackHash, 0)} :
       /\ r.rc # "toobig"
       /\ m' = r.m
       /\ mstate' = IF r.rc = "ok" /\ r.pos = PosNULL THEN "crash"
                      ELSE Ended(r.rc)
       /\ res' = Result("set_insert", nops + 1, nops + 1,
                        IF r.pos = PosNULL THEN ZeroObj
                          ELSE FIO_MAP_OBJ2TYPE(r.m.map[r.pos].obj),
                        0, r.old, <<>>)
  /\ abs' = AbsPut(abs, nops + 1, nops + 1, FALSE)
  /\ nops' = nops + 1
  /\ UNCHANGED <<memvars, refvars, typevars, keyed>>

\* find(&m, 1, k) between two turns of the loop
attack_find(k) ==
  /\ mstate = "ok"
  /\ \E r \in {Find(m, [key |-> k, value |-> 0], AttackHash)} :
       /\ m' = r.m
       /\ mstate' = Ended(r.rc)
       /\ res' = Result("find", k, 0, r.rv, 0, ZeroObj, <<>>)
  /\ UNCHANGED <<memvars, refvars, typevars, keyed, abs, nops>>

AttackNext ==
  \/ attack_insert
  \/ \E k \in AttackKeys : attack_find(k)

\* a set, empty
InitAttack == MemInit /\ RefInit /\ TypesInit /\ MapInit(FALSE)

SpecAttack == InitAttack /\ [][AttackNext]_vars

(***************************************************************************)
(* Dynamic array (FIO_ARRAY_NAME): the functions, each a function from the *)
(* container (and arguments) to the container it leaves and what it        *)
(* returns.  T is the element type the array was compiled for.             *)
(***************************************************************************)
\* ary->ary[i]
Slot(mem, i) == mem[i + 1]

\* ary->ary[i] = v; slot Len(mem) is the first one outside the memory
Store(mem, i, v) ==
  IF i < Len(mem) THEN [mem EXCEPT ![i + 1] = v] ELSE Append(mem, v)

\* (alternative: the gap is left as the allocator returned it)
fill_skipped(mem, from, to, v) == mem

\* slots from..to-1 set to v (memset, or a loop of assignments)
Fill(mem, from, to, v) ==
  [k \in 1..Len(mem) |-> IF from <= k - 1 /\ k - 1 < to THEN v ELSE mem[k]]

\* FIO_MEM_REALLOC_: copy_len slots are kept, the rest is not initialized
Realloc(mem, copy_len, new_capa, junk) ==
  [k \in 1..new_capa |->
     IF k <= copy_len /\ k <= Len(mem) THEN mem[k] ELSE junk]

\* FIO_MEM_CALLOC_ and memcpy of the valid data to the end of the memory
CallocTail(mem, start, valid_data, new_capa) ==
  [k \in 1..new_capa |->
     IF k - 1 >= new_capa - valid_data
       THEN mem[start + (k - 1 - (new_capa - valid_data)) + 1]
       ELSE 0]

ary_count(a) == a.end - a.start

\* the elements of the array, first to last
Contents(a) == [i \in 1..(a.end - a.start) |-> a.ary[a.start + i]]

\* tail of set(): copy the old value out, destroy it, store the new one
SetFinish(a, idx, data, oob) ==
  [a |-> [a EXCEPT !.ary = Store(a.ary, idx, data)],
   old |-> Slot(a.ary, idx), oob |-> oob]

\* set(): index >= 0, zero based (look forward)
SetForward(T, a, index, data, junk) ==
  LET idx == index + a.start
      new_capa == FIO_ARRAY_SIZE2WORDS(T, idx + FIO_ARRAY_ADD2CAPA(a.capa))
      grown == IF idx >= a.capa
                 THEN [a EXCEPT !.ary = Realloc(a.ary, a.end, new_capa, junk),
                                !.capa = new_capa]
                 ELSE a
      \* ary->ary[ary->end++] = FIO_ARRAY_TYPE_INVALID
      bumped == [grown EXCEPT
                   !.ary = Store(grown.ary, grown.end,
                                 FIO_ARRAY_TYPE_INVALID(T)),
                   !.end = grown.end + 1]
      filled == IF idx >= bumped.end
                  THEN [bumped EXCEPT
                          !.ary = IF FIO_ARRAY_TYPE_INVALID_SIMPLE(T)
                                    THEN Fill(bumped.ary, bumped.end, idx, 0)
                                    ELSE Fill(bumped.ary, bumped.end, idx + 1,
                                              FIO_ARRAY_TYPE_INVALID(T)),
                          !.end = idx + 1]
                  ELSE bumped
  IN SetFinish(filled, idx, data, grown.end >= grown.capa)

\* set(): index < 0, -1 based (look backwards)
SetBackward(T, a, index, data) ==
  LET new_capa == FIO_ARRAY_SIZE2WORDS(
                    T, a.capa + FIO_ARRAY_ADD2CAPA(a.capa) + (0 - (index + a.end)))
      valid_data == a.end - a.start
      moved == IF index + a.end < 0
                 THEN [ary |-> CallocTail(a.ary, a.start, valid_data, new_capa),
                       capa |-> new_capa, end |-> new_capa,
                       start |-> IF FIO_ARRAY_TYPE_INVALID_SIMPLE(T)
                                   THEN index + new_capa
                                   ELSE new_capa - valid_data]
                 ELSE a
      idx == IF index + a.end < 0 THEN index + new_capa ELSE index + a.end
      filled == IF idx < moved.start
                  THEN [moved EXCEPT
                          !.ary = Fill(moved.ary, idx, moved.start,
                                       FIO_ARRAY_TYPE_INVALID(T)),
                          !.start = idx]
                  ELSE moved
  IN SetFinish(filled, idx, data, FALSE)

ary_set(T, a, index, data, junk) ==
  IF index >= 0 THEN SetForward(T, a, index, data, junk)
  ELSE SetBackward(T, a, index, data)

ary_get(T, a, index) ==
  LET idx == index + (IF index >= 0 THEN a.start ELSE a.end)
  IN IF idx < 0 \/ idx >= a.end THEN FIO_ARRAY_TYPE_INVALID(T)
     ELSE Slot(a.ary, idx)

\* find(): seek forwards from start_at
RECURSIVE FindForward(_, _, _)
FindForward(a, data, start_at) ==
  IF start_at < a.end
    THEN IF FIO_ARRAY_TYPE_COMPARE(Slot(a.ary, start_at), data)
           THEN start_at
           ELSE FindForward(a, data, start_at + 1)
    ELSE -1

\* find(): seek backwards from start_at
RECURSIVE FindBackward(_, _, _)
FindBackward(a, data, start_at) ==
  IF start_at > a.start
    THEN IF FIO_ARRAY_TYPE_COMPARE(Slot(a.ary, start_at), data)
           THEN start_at
           ELSE FindBackward(a, data, start_at - 1)
    ELSE -1

ary_find(a, data, start_at) ==
  IF start_at >= 0 THEN FindForward(a, data, start_at)
  ELSE FindBackward(a, data,
                    IF start_at + a.end >= a.end THEN a.end - 1
                    ELSE start_at + a.end)

Pow256(j) == IF j = 0 THEN 1 ELSE IF j = 1 THEN 256
             ELSE IF j = 2 THEN 65536 ELSE 16777216

\* byte p of the memory (little endian)
MemByte(T, mem, p) ==
  (mem[(p \div sizeof(T)) + 1] \div Pow256(p % sizeof(T))) % 256

\* byte p of the memory after memmove(dest, src, n), all three in bytes
MovedByte(T, mem, dest, src, n, p) ==
  IF dest <= p /\ p < dest + n THEN MemByte(T, mem, src + (p - dest))
  ELSE MemByte(T, mem, p)

RECURSIVE MovedSlot(_, _, _, _, _, _, _)
MovedSlot(T, mem, dest, src, n, k, j) ==
  IF j = sizeof(T) THEN 0
  ELSE MovedByte(T, mem, dest, src, n, k * sizeof(T) + j) * Pow256(j)
       + MovedSlot(T, mem, dest, src, n, k, j + 1)

\* memmove(ary + d, ary + s, n): d and s count elements, n counts bytes
memmove(T, mem, d, s, n) ==
  [k \in 1..Len(mem) |->
     IF d <= k - 1 /\ (k - 1) * sizeof(T) < d * sizeof(T) + n
       THEN MovedSlot(T, mem, d * sizeof(T), s * sizeof(T), n, k - 1, 0)
       ELSE mem[k]]

\* the byte count remove() hands to memmove: a difference of two pointers
remove_move_elements(T, a, idx) == a.end - idx
remove_move_bytes(T, a, idx) == (a.end - idx) * sizeof(T)

ary_remove(T, a, index) ==
  LET idx == index + (IF index >= 0 THEN a.start ELSE a.end)
  IN IF idx < 0 \/ idx >= a.end \/ idx < a.start
       THEN [a |-> a, old |-> FIO_ARRAY_TYPE_INVALID(T), rv |-> -1]
     ELSE IF idx = a.start
       THEN [a |-> [a EXCEPT
                      !.ary = Store(a.ary, idx,
                                    FIO_ARRAY_TYPE_DESTROY(T, Slot(a.ary, idx))),
                      !.start = a.start + 1],
             old |-> Slot(a.ary, idx), rv |-> 0]
     ELSE LET popped == [a EXCEPT
                           !.ary = Store(a.ary, idx,
                                    FIO_ARRAY_TYPE_DESTROY(T, Slot(a.ary, idx))),
                           !.end = a.end - 1]
          IN [a |-> IF popped.end # idx
                      THEN [popped EXCEPT
                              !.ary = memmove(T, popped.ary, idx, idx + 1,
                                        remove_move_elements(T, popped, idx))]
                      ELSE popped,
              old |-> Slot(a.ary, idx), rv |-> 0]

RECURSIVE Remove2Loop(_, _, _, _, _)
Remove2Loop(T, a, data, i, c) ==
  IF i < a.end
    THEN IF ~FIO_ARRAY_TYPE_COMPARE(Slot(a.ary, i + c), data)
           THEN Remove2Loop(T, [a EXCEPT !.ary = Store(a.ary, i,
                                                       Slot(a.ary, i + c))],
                            data, i + 1, c)
           ELSE Remove2Loop(T, [a EXCEPT
                                  !.ary = Store(a.ary, i + c,
                                            FIO_ARRAY_TYPE_DESTROY(
                                              T, Slot(a.ary, i + c))),
                                  !.end = a.end - 1],
                            data, i, c + 1)
    ELSE [a |-> a, rv |-> c]

ary_remove2(T, a, data) == Remove2Loop(T, a, data, a.start, 0)

ary_compact(a) ==
  [ary |-> Contents(a), capa |-> a.end - a.start, start |-> 0,
   end |-> a.end - a.start]

ary_push(T, a, data, junk) ==
  IF a.end >= a.capa THEN ary_set(T, a, a.end, data, junk)
  ELSE [a |-> [a EXCEPT !.ary = Store(a.ary, a.end, data), !.end = a.end + 1],
        old |-> 0, oob |-> FALSE]

ary_pop(T, a) ==
  IF a.start = a.end
    THEN [a |-> a, old |-> FIO_ARRAY_TYPE_INVALID(T), rv |-> -1]
  ELSE [a |-> [a EXCEPT
                 !.end = a.end - 1,
                 !.ary = Store(a.ary, a.end - 1,
                           FIO_ARRAY_TYPE_DESTROY(T, Slot(a.ary, a.end - 1)))],
        old |-> Slot(a.ary, a.end - 1), rv |-> 0]

ary_unshift(T, a, data, junk) ==
  IF a.start > 0
    THEN [a |-> [a EXCEPT !.start = a.start - 1,
                          !.ary = Store(a.ary, a.start - 1, data)],
          old |-> 0, oob |-> FALSE]
  ELSE ary_set(T, a, -1 - a.end, data, junk)

ary_shift(T, a) ==
  IF a.start = a.end
    THEN [a |-> a, old |-> FIO_ARRAY_TYPE_INVALID(T), rv |-> -1]
  ELSE [a |-> [a EXCEPT
                 !.ary = Store(a.ary, a.start,
                           FIO_ARRAY_TYPE_DESTROY(T, Slot(a.ary, a.start))),
                 !.start = a.start + 1],
        old |-> Slot(a.ary, a.start), rv |-> 0]

\* (alternative: a return value of -1 that is ignored)
task_never_stops(obj, stop) == 0

\* the task of each(): returns -1 on the element `stop`, 0 on any other
ary_task(obj, stop) == IF obj = stop THEN -1 ELSE 0

RECURSIVE EachLoop(_, _, _, _)
EachLoop(a, i, stop, calls) ==
  IF i < a.end
    THEN IF ary_task(Slot(a.ary, i), stop) = -1
           THEN [rv |-> (i + 1) - a.start,
                 calls |-> Append(calls, Slot(a.ary, i))]
           ELSE EachLoop(a, i + 1, stop, Append(calls, Slot(a.ary, i)))
    ELSE [rv |-> a.end - a.start, calls |-> calls]

\* start_at counted from the end when negative, and never below zero
EachStart(a, start_at) ==
  IF start_at >= 0 THEN start_at
  ELSE IF start_at + (a.end - a.start) < 0 THEN 0
  ELSE start_at + (a.end - a.start)

ary_each(a, start_at, stop) ==
  EachLoop(a, a.start + EachStart(a, start_at), stop, <<>>)

(***************************************************************************)
(* Dynamic array: the API, one action per call.  `ares` records the call,  *)
(* what it returned and the elements the array held before it.             *)
(***************************************************************************)
\* the variables a call on the array leaves alone
notaryvars == <<memvars, refvars, mapvars, hmapvars, strvars, jsonvars,
                arenavars, listvars, atype>>

AryCallable == astate = "ok" /\ anops < MaxAryOps

AryResult(op, arg, data, rv, old, calls) ==
  [op |-> op, arg |-> arg, data |-> data, rv |-> rv, old |-> old,
   before |-> Contents(arr), calls |-> calls]

\* a write outside the memory may go unnoticed or end the program
AfterWrite(oob) == IF oob THEN {"ok", "crash"} ELSE {"ok"}

array_set(index, data, junk) ==
  /\ AryCallable
  /\ \E r \in {ary_set(atype, arr, index, data, junk)} :
       /\ arr' = r.a
       /\ astate' \in AfterWrite(r.oob)
       /\ ares' = AryResult("set", index, data, 0, r.old, <<>>)
  /\ anops' = anops + 1
  /\ UNCHANGED notaryvars

array_push(data, junk) ==
  /\ AryCallable
  /\ \E r \in {ary_push(atype, arr, data, junk)} :
       /\ arr' = r.a
       /\ astate' \in AfterWrite(r.oob)
       /\ ares' = AryResult("push", 0, data, 0, 0, <<>>)
  /\ anops' = anops + 1
  /\ UNCHANGED notaryvars

array_unshift(data, junk) ==
  /\ AryCallable
  /\ \E r \in {ary_unshift(atype, arr, data, junk)} :
       /\ arr' = r.a
       /\ astate' \in AfterWrite(r.oob)
       /\ ares' = AryResult("unshift", 0, data, 0, 0, <<>>)
  /\ anops' = anops + 1
  /\ UNCHANGED notaryvars

array_pop ==
  /\ AryCallable
  /\ \E r \in {ary_pop(atype, arr)} :
       /\ arr' = r.a
       /\ ares' = AryResult("pop", 0, 0, r.rv, r.old, <<>>)
  /\ anops' = anops + 1
  /\ UNCHANGED <<notaryvars, astate>>

array_shift ==
  /\ AryCallable
  /\ \E r \in {ary_shift(atype, arr)} :
       /\ arr' = r.a
       /\ ares' = AryResult("shift", 0, 0, r.rv, r.old, <<>>)
  /\ anops' = anops + 1
  /\ UNCHANGED <<notaryvars, astate>>

array_remove(index) ==
  /\ AryCallable
  /\ \E r \in {ary_remove(atype, arr, index)} :
       /\ arr' = r.a
       /\ ares' = AryResult("remove", index, 0, r.rv, r.old, <<>>)
  /\ anops' = anops + 1
  /\ UNCHANGED <<notaryvars, astate>>

array_remove2(data) ==
  /\ AryCallable
  /\ \E r \in {ary_remove2(atype, arr, data)} :
       /\ arr' = r.a
       /\ ares' = AryResult("remove2", 0, data, r.rv, 0, <<>>)
  /\ anops' = anops + 1
  /\ UNCHANGED <<notaryvars, astate>>

array_find(data, start_at) ==
  /\ AryCallable
  /\ ares' = AryResult("find", start_at, data,
                       ary_find(arr, data, start_at), 0, <<>>)
  /\ anops' = anops + 1
  /\ UNCHANGED <<notaryvars, arr, astate>>

array_each(start_at, stop) ==
  /\ AryCallable
  /\ \E r \in {ary_each(arr, start_at, stop)} :
       ares' = AryResult("each", start_at, stop, r.rv, 0, r.calls)
  /\ anops' = anops + 1
  /\ UNCHANGED <<notaryvars, arr, astate>>

array_compact ==
  /\ AryCallable
  /\ arr' = ary_compact(arr)
  /\ ares' = AryResult("compact", 0, 0, 0, 0, <<>>)
  /\ anops' = anops + 1
  /\ UNCHANGED <<notaryvars, astate>>

\* the values stored, and the invalid value of either element type
AData == AValues \cup {0, 255}

AryNext ==
  \/ \E index \in {0, 1, 3, -1, -2}, data \in AValues, junk \in JunkValues :
       array_set(index, data, junk)
  \/ \E data \in AValues, junk \in JunkValues : array_push(data, junk)
  \/ \E data \in AValues, junk \in JunkValues : array_unshift(data, junk)
  \/ array_pop
  \/ array_shift
  \/ \E index \in {0, 1, 4, -1, -2} : array_remove(index)
  \/ \E data \in AData : array_remove2(data)
  \/ \E data \in AData, start_at \in {0, 1, -1, -2} :
       array_find(data, start_at)
  \/ \E start_at \in {0, 1, 5, -1}, stop \in AData : array_each(start_at, stop)
  \/ array_compact

\* an array of either element type, empty
InitAry ==
  /\ MemInit /\ RefInit /\ MapInit(TRUE) /\ HMapInit /\ StrInit /\ JsonInit
  /\ ArenaInit /\ ListInit
  /\ \E T \in ArrayTypes : AryInit(T)

SpecAry == InitAry /\ [][AryNext]_vars

(***************************************************************************)
(* Hash map for bigger items (FIO_HMAP_NAME).  `data' holds the entries in *)
(* insertion order, `map' holds for each position the 32 bit hash and the  *)
(* index into `data'.  Positions and data indexes count from zero, as in   *)
(* the code.  Hashes are 64 bit values: the model keeps the all-ones hash  *)
(* as AllOnes64 and every other hash below 2^(32 - bits), for which the    *)
(* shifts by (32 - bits) give zero.  Allocation is taken to succeed.       *)
(***************************************************************************)
HMapSlot(hmp, pos) == hmp.map[pos + 1]
HData(hmp, i) == hmp.data[i + 1]
HMask(hmp) == Pow2(hmp.bits) - 1

\* if (!hash) hash = ~(uint64_t)0;
HashOrOnes(hash) == IF hash = 0 THEN AllOnes64 ELSE hash

\* (hash ^ (hash >> (32 - (bits & 31)))) | 1, in 32 bits
hmap___hash4map(hmp, hash) ==
  IF hash = AllOnes64 THEN 1 ELSE BitOr(hash, 1)

\* (hash ^ (hash >> (bits & 31))) & mask
HFirstPos(hmp, hash) ==
  IF hash = AllOnes64 THEN 0
  ELSE BitAnd(BitXor(hash, hash \div Pow2(hmp.bits)), HMask(hmp))

\* a comparison that takes every key for the key looked for
key_compare_always(a, b) == TRUE

\* the test's FIO_HMAP_KEY_COMPARE
FIO_HMAP_KEY_COMPARE(a, b) == a = b

RECURSIVE hmap___pos(_, _, _)
RECURSIVE hmap_rehash(_)
RECURSIVE HSeek(_, _, _, _, _, _, _)
RECURSIVE RehashLoop(_, _, _, _)

\* the loop of __pos: at most max_seek positions, CUCKOO_STEP apart
HSeek(hmp, hash, key, target, pos, i, full_collisions) ==
  LET mask == HMask(hmp)
      max_seek == IF mask > FIO_HMAP_MAX_SEEK THEN FIO_HMAP_MAX_SEEK ELSE mask
      next == (pos + FIO_HMAP_CUCKOO_STEP) % (mask + 1)
      slot == HMapSlot(hmp, pos)
  IN IF i >= max_seek THEN [hmp |-> hmp, pos |-> FIO_HMAP_INVALID_POS]
     ELSE IF slot.hash = 0 THEN [hmp |-> hmp, pos |-> pos]
     ELSE IF /\ slot.hash = target
             /\ slot.pos # FIO_HMAP_INVALID_POS
             /\ HData(hmp, slot.pos).hash = hash
     THEN IF \/ hmp.attacked # 0
             \/ FIO_HMAP_KEY_COMPARE(HData(hmp, slot.pos).key, key)
          THEN [hmp |-> hmp, pos |-> pos]
          ELSE HSeek([hmp EXCEPT !.collisions = 1,
                               !.attacked =
                                 IF full_collisions + 1 >= 11 THEN 1 ELSE @],
                     hash, key, target, next, i + 1, full_collisions + 1)
     ELSE HSeek(hmp, hash, key, target, next, i + 1, full_collisions)

\* the 16 bit offset is about to run out
OffsetLimit == 65528

hmap___pos(hmp, hash, key) ==
  IF ~hmp.has_map \/ ~hmp.has_data
  THEN [hmp |-> hmp, pos |-> FIO_HMAP_INVALID_POS]
  ELSE LET h == HashOrOnes(hash)
           hmp1 == IF hmp.offset >= OffsetLimit THEN hmap_rehash(hmp).hmp ELSE hmp
           hmp2 == IF hmp1.collisions # 0 /\ hmp1.offset # 0
                 THEN hmap_rehash(hmp1).hmp ELSE hmp1
       IN HSeek(hmp2, h, key, hmap___hash4map(hmp, h), HFirstPos(hmp, h), 0, 0)

RehashLoop(hmp, used_count, w, i) ==
  IF i >= used_count THEN [hmp |-> hmp, rv |-> 0]
  ELSE IF HData(hmp, i).hash = 0 THEN RehashLoop(hmp, used_count, w, i + 1)
  ELSE LET moved ==
             IF w # i
             THEN [hmp EXCEPT !.data[w + 1] = HData(hmp, i),
                            !.data[i + 1].hash = 0]
             ELSE hmp
           r == hmap___pos(moved, HData(moved, w).hash, HData(moved, w).key)
       IN IF r.pos = FIO_HMAP_INVALID_POS
          THEN [hmp |-> [r.hmp EXCEPT !.offset = used_count - r.hmp.count],
                rv |-> -1]
          ELSE RehashLoop(
                 [r.hmp EXCEPT !.map[r.pos + 1] =
                    [hash |-> hmap___hash4map(r.hmp, HData(r.hmp, w).hash),
                     pos |-> w]],
                 used_count, w + 1, i + 1)

\* a fresh zeroed map, then every entry still alive moves to the front of
\* `data' and is given a position
hmap_rehash(hmp) ==
  RehashLoop([hmp EXCEPT !.has_map = TRUE,
                       !.map = [p \in 1..Pow2(hmp.bits) |-> ZeroSlot],
                       !.offset = 0],
             hmp.count + hmp.offset, 0, 0)

\* FIO_MEM_REALLOC_ of `data' to twice the entries: the entries in use are
\* copied, the rest holds whatever the memory held
HRealloc(hmp, junk) ==
  [i \in 1..Pow2(hmp.bits + 1) |->
     IF i <= hmp.count + hmp.offset /\ i <= Len(hmp.data) THEN hmp.data[i]
     ELSE [hash |-> 0, key |-> 0, value |-> junk]]

HNewEntry(hash, key, value) == [hash |-> hash, key |-> key, value |-> value]

\* add_and_rehash: the map is freed, `data' doubles, the entry is appended
HAddAndRehash(hmp, hash, key, value, junk) ==
  LET grown == [hmp EXCEPT !.has_map = FALSE, !.map = <<>>,
                         !.has_data = TRUE, !.data = HRealloc(hmp, junk),
                         !.bits = @ + 1]
      added == [grown EXCEPT !.data[hmp.count + hmp.offset + 1] =
                               HNewEntry(hash, key, value),
                             !.count = @ + 1]
  IN [hmp |-> hmap_rehash(added).hmp, rv |-> 0, old |-> ZeroValue, oob |-> FALSE]

\* the entry insert writes to and reads from: data[count + offset]
HNextFree(hmp) == hmp.count + hmp.offset

\* the entry a position of the map stands for: data[map[pos].pos]
HEntryAt(hmp, pos) == HMapSlot(hmp, pos).pos

\* "new object": the position is free in the map, or its entry is data[0]
HInsertNew(hmp, pos, hash, key, value) ==
  LET idx == HNextFree(hmp)
      oob == idx >= Len(hmp.data)
      placed == [hmp EXCEPT !.map[pos + 1] =
                   [hash |-> hmap___hash4map(hmp, hash), pos |-> idx]]
      stored == IF oob THEN placed
                ELSE [placed EXCEPT !.data[idx + 1] =
                                      HNewEntry(hash, key, value)]
  IN [hmp |-> [stored EXCEPT !.count = @ + 1],
      rv |-> 0, old |-> ZeroValue, oob |-> oob]

\* "overwriting existing object": old is read from, and the value written
\* to, the entry at idx
HOverwrite(hmp, idx, value, junk) ==
  LET oob == idx >= Len(hmp.data)
  IN [hmp |-> IF oob THEN hmp ELSE [hmp EXCEPT !.data[idx + 1].value = value],
      rv |-> 1,
      old |-> IF oob THEN junk ELSE HData(hmp, idx).value,
      oob |-> oob]

hmap_insert(hmp0, hash0, key, value, junk) ==
  LET hash == HashOrOnes(hash0)
      r == hmap___pos(hmp0, hash, key)
      hmp == r.hmp
      pos == r.pos
  IN IF pos = FIO_HMAP_INVALID_POS
     THEN HAddAndRehash(hmp, hash, key, value, junk)
     ELSE IF HMapSlot(hmp, pos).hash = 0 \/ HMapSlot(hmp, pos).pos = 0
     THEN HInsertNew(hmp, pos, hash, key, value)
     ELSE HOverwrite(hmp, HNextFree(hmp), value, junk)

hmap_remove(hmp0, hash0, key) ==
  LET hash == HashOrOnes(hash0)
      r == hmap___pos(hmp0, hash, key)
      hmp == r.hmp
  IN IF r.pos = FIO_HMAP_INVALID_POS \/ HMapSlot(hmp, r.pos).hash = 0
     THEN [hmp |-> hmp, rv |-> -1, old |-> ZeroValue]
     ELSE LET pos == HMapSlot(hmp, r.pos).pos
              marked == [hmp EXCEPT
                           !.map[r.pos + 1].pos = FIO_HMAP_INVALID_POS,
                           !.data[pos + 1].hash = 0]
          IN [hmp |-> [marked EXCEPT
                       !.offset =
                         IF pos # hmp.count + hmp.offset - 1 THEN @ + 1 ELSE @,
                       !.count = @ - 1],
              rv |-> 0, old |-> HData(hmp, pos).value]

hmap_find(hmp0, hash, key) ==
  LET r == hmap___pos(hmp0, hash, key)
      hmp == r.hmp
  IN IF \/ r.pos = FIO_HMAP_INVALID_POS
        \/ HMapSlot(hmp, r.pos).hash = 0
        \/ HMapSlot(hmp, r.pos).pos = FIO_HMAP_INVALID_POS
        \/ HData(hmp, HMapSlot(hmp, r.pos).pos).hash = 0
     THEN [hmp |-> hmp, value |-> ZeroValue]
     ELSE [hmp |-> hmp, value |-> HData(hmp, HMapSlot(hmp, r.pos).pos).value]

(***************************************************************************)
(* Hash map for bigger items: the calls a program makes.  A write past the *)
(* end of `data' either faults or lands in foreign memory; the model does  *)
(* not follow the program after either, nor after destroy, which frees the *)
(* map and the data and leaves the container pointing at them.             *)
(***************************************************************************)
nothmapvars == <<memvars, refvars, mapvars, aryvars, strvars, jsonvars,
                 arenavars, listvars>>

HCallable == hstate = "ok" /\ hnops < MaxHOps

HAfterWrite(oob) == IF oob THEN {"crash", "corrupt"} ELSE {"ok"}

HResult(op, hash, key, value, rv, old) ==
  [op |-> op, hash |-> hash, key |-> key, value |-> value,
   rv |-> rv, old |-> old]

hmap_test_insert(key, value, junk) ==
  /\ HCallable
  /\ \E r \in {hmap_insert(hm, HASHOFi(key), key, value, junk)} :
       /\ hm' = r.hmp
       /\ hstate' \in HAfterWrite(r.oob)
       /\ hres' = HResult("insert", HASHOFi(key), key, value, r.rv, r.old)
  /\ habs' = [habs EXCEPT ![key] = value]
  /\ hdup' = (hdup \/ habs[key] # 0)
  /\ hnops' = hnops + 1
  /\ UNCHANGED nothmapvars

hmap_test_remove(key) ==
  /\ HCallable
  /\ \E r \in {hmap_remove(hm, HASHOFi(key), key)} :
       /\ hm' = r.hmp
       /\ hres' = HResult("remove", HASHOFi(key), key, 0, r.rv, r.old)
  /\ habs' = [habs EXCEPT ![key] = 0]
  /\ hnops' = hnops + 1
  /\ UNCHANGED <<nothmapvars, hstate, hdup>>

hmap_test_find(hash, key) ==
  /\ HCallable
  /\ \E r \in {hmap_find(hm, hash, key)} :
       /\ hm' = r.hmp
       /\ hres' = HResult("find", hash, key, 0, r.value, 0)
  /\ hnops' = hnops + 1
  /\ UNCHANGED <<nothmapvars, hstate, habs, hdup>>

hmap_test_destroy ==
  /\ HCallable
  /\ hm.has_map
  /\ hm' = [hm EXCEPT !.has_map = FALSE, !.has_data = FALSE]
  /\ hstate' = "destroyed"
  /\ hres' = HResult("destroy", 0, 0, 0, 0, 0)
  /\ hnops' = hnops + 1
  /\ UNCHANGED <<nothmapvars, habs, hdup>>

HMapNext ==
  \/ \E key \in HKeys, value \in HValues, junk \in JunkValues :
       hmap_test_insert(key, value, junk)
  \/ \E key \in HKeys : hmap_test_remove(key)
  \/ \E hash \in {HASHOFi(k) : k \in HKeys}, key \in HKeys :
       hmap_test_find(hash, key)
  \/ hmap_test_destroy

InitHMap ==
  /\ MemInit /\ RefInit /\ MapInit(TRUE) /\ AryInit("int") /\ StrInit
  /\ JsonInit /\ ArenaInit /\ ListInit /\ HMapInit

SpecHMap == InitHMap /\ [][HMapNext]_vars

(***************************************************************************)
(* Dynamic string (FIO_STRING_NAME).  Strings start from FIO_STRING_INIT,  *)
(* so a string that left the container is deallocated with the default     *)
(* function (dealloc is never NULL for it).  Allocation is taken to        *)
(* succeed.  Each operator returns the container after the call, the info  *)
(* the call returned and whether it wrote outside the string's memory.     *)
(***************************************************************************)
FIO_STRING_IS_SMALL(s) == s.special % 2 = 1 \/ s.data = NULL
FIO_STRING_IS_FROZEN(s) == (s.special \div 2) % 2 = 1
FIO_STRING_SMALL_LEN(s) == s.special \div 4

\* ((special & 2) | ((uint8_t)(l) << 2) | 1) & 0xFF
FIO_STRING_SMALL_LEN_SET(s, l) ==
  [s EXCEPT !.special =
     (IF FIO_STRING_IS_FROZEN(s) THEN 2 ELSE 0) + (((l % 256) * 4) % 256) + 1]

\* ((num) + 1) | (sizeof(long double) - 1)
FIO_STRING_CAPA2WORDS(num) == BitOr(num + 1, LongDoubleMask)

str_info(s) ==
  IF FIO_STRING_IS_SMALL(s)
  THEN [capa |-> IF FIO_STRING_IS_FROZEN(s) THEN 0 ELSE FIO_STRING_SMALL_CAPA,
        len |-> FIO_STRING_SMALL_LEN(s),
        data |-> ContainerData]
  ELSE [capa |-> IF FIO_STRING_IS_FROZEN(s) THEN 0 ELSE s.capa,
        len |-> s.len,
        data |-> s.data]

str_len(s) == IF FIO_STRING_IS_SMALL(s) THEN FIO_STRING_SMALL_LEN(s) ELSE s.len

\* the bytes of the string: data[0] .. data[len - 1]
StrContent(s) ==
  [k \in 1..str_len(s) |-> IF k <= Len(s.mem) THEN s.mem[k] ELSE 0]

\* bytes written to the memory from offset at on; what falls outside the
\* memory is not kept
PutBytes(mem, at, bytes) ==
  [k \in 1..Len(mem) |->
     IF k - 1 >= at /\ k - 1 < at + Len(bytes) THEN bytes[k - at] ELSE mem[k]]

Outside(mem, at, n) == n > 0 /\ (at < 0 \/ at + n > Len(mem))

\* memmove(data + d, data + f, n): bytes read outside the memory are junk
MoveBytes(mem, d, f, n, junk) ==
  PutBytes(mem, d,
           [k \in 1..n |-> IF f + k >= 1 /\ f + k <= Len(mem)
                           THEN mem[f + k] ELSE junk])

StrReturn(s, rv, oob) == [s |-> s, rv |-> rv, oob |-> oob]

\* freeze: special |= 2
str_freeze(s) ==
  [s EXCEPT !.special = IF FIO_STRING_IS_FROZEN(s) THEN @ ELSE @ + 2]

\* (alternative: the string leaves the container without its bytes)
reserve_small_drops(s, amount, fresh) ==
  LET capa == FIO_STRING_CAPA2WORDS(amount)
      big == [special |-> 0, capa |-> capa, len |-> FIO_STRING_SMALL_LEN(s),
              data |-> fresh, mem |-> [k \in 1..(capa + 1) |-> 0]]
  IN StrReturn(big, [capa |-> capa, len |-> 0, data |-> fresh], FALSE)

\* reserve for a string inside the container: zeroed memory, the string and
\* its NUL copied over; the len returned is read from the new container
ReserveSmall(s, amount, fresh) ==
  LET capa == FIO_STRING_CAPA2WORDS(amount)
      small_len == FIO_STRING_SMALL_LEN(s)
      tmp == [k \in 1..(capa + 1) |->
                IF small_len # 0 /\ k <= small_len + 1 /\ k <= Len(s.mem)
                THEN s.mem[k] ELSE 0]
      big == [special |-> 0, capa |-> capa, len |-> small_len,
              data |-> fresh, mem |-> tmp]
  IN StrReturn(big,
               [capa |-> capa, len |-> FIO_STRING_SMALL_LEN(big),
                data |-> fresh],
               FALSE)

\* reserve for a string outside the container: FIO_MEM_REALLOC_, which
\* keeps len + 1 bytes and may move the memory
ReserveBig(s, amount, moved, fresh, junk) ==
  LET capa == FIO_STRING_CAPA2WORDS(amount)
      tmp == Realloc(s.mem, s.len + 1, capa + 1, junk)
      big == [s EXCEPT !.capa = capa,
                       !.data = IF moved THEN fresh ELSE @,
                       !.mem = [tmp EXCEPT ![capa + 1] = 0]]
  IN StrReturn(big, [capa |-> capa, len |-> big.len, data |-> big.data],
               FALSE)

str_reserve(s, amount, moved, fresh, junk) ==
  IF FIO_STRING_IS_FROZEN(s) THEN StrReturn(s, str_info(s), FALSE)
  ELSE IF FIO_STRING_IS_SMALL(s)
  THEN IF amount <= FIO_STRING_SMALL_CAPA
       THEN StrReturn(s, [capa |-> FIO_STRING_SMALL_CAPA,
                          len |-> FIO_STRING_SMALL_LEN(s),
                          data |-> ContainerData], FALSE)
       ELSE ReserveSmall(s, amount, fresh)
  ELSE IF amount < s.capa
  THEN StrReturn(s, [capa |-> s.capa, len |-> s.len, data |-> s.data],
                 FALSE)
  ELSE ReserveBig(s, amount, moved, fresh, junk)

\* resize, label big: s->len = size; s->data[size] = 0;
ResizeBig(s, size) ==
  StrReturn([s EXCEPT !.len = size,
                      !.mem = PutBytes(s.mem, size, <<0>>)],
            [capa |-> s.capa, len |-> size, data |-> s.data],
            Outside(s.mem, size, 1))

str_resize(s, size, moved, fresh, junk) ==
  IF FIO_STRING_IS_FROZEN(s) THEN StrReturn(s, str_info(s), FALSE)
  ELSE IF FIO_STRING_IS_SMALL(s)
  THEN IF size <= FIO_STRING_SMALL_CAPA
       THEN StrReturn([FIO_STRING_SMALL_LEN_SET(s, size) EXCEPT
                         !.mem = PutBytes(s.mem, size, <<0>>)],
                      [capa |-> FIO_STRING_SMALL_CAPA, len |-> size,
                       data |-> ContainerData],
                      FALSE)
       ELSE ResizeBig(
              str_reserve(FIO_STRING_SMALL_LEN_SET(s, FIO_STRING_SMALL_CAPA),
                          size, moved, fresh, junk).s,
              size)
  ELSE IF size >= s.capa
  THEN ResizeBig(
         str_reserve(IF s.capa # 0 THEN [s EXCEPT !.len = s.capa] ELSE s,
                     size, moved, fresh, junk).s,
         size)
  ELSE ResizeBig(s, size)

\* compact, label shrink2small: the string moves into the container, whose
\* other bytes keep what the fields of the container held
Shrink2Small(s, junk) ==
  [FIO_STRING_SMALL_LEN_SET(s, s.len) EXCEPT
     !.capa = 0, !.len = 0, !.data = NULL,
     !.mem = [k \in 1..(SizeofString - 1) |->
                IF s.len # 0 /\ k <= s.len + 1 THEN s.mem[k] ELSE junk]]

\* compact: no memory is given back for a string inside the container; a
\* string that fits the container moves into it; any other string has its
\* memory cut to len + 1 bytes by FIO_MEM_REALLOC_, which may move it
str_compact(s, moved, fresh, junk) ==
  IF FIO_STRING_IS_SMALL(s) THEN s
  ELSE IF s.len <= FIO_STRING_SMALL_CAPA THEN Shrink2Small(s, junk)
  ELSE [s EXCEPT !.data = IF moved THEN fresh ELSE @,
                 !.capa = s.len,
                 !.mem = Realloc(s.mem, s.len + 1, s.len + 1, junk)]

\* memcpy of the bytes into the memory the info points at (the string's
\* own memory, whatever the info says about its length)
StrPut(r, at, bytes) ==
  StrReturn([r.s EXCEPT !.mem = PutBytes(r.s.mem, at, bytes)], r.rv,
            r.oob \/ Outside(r.s.mem, at, Len(bytes)))

str_write(s, src, moved, fresh, junk) ==
  IF Len(src) = 0 \/ FIO_STRING_IS_FROZEN(s)
  THEN StrReturn(s, str_info(s), FALSE)
  ELSE LET sinfo == str_resize(s, Len(src) + str_len(s), moved, fresh, junk)
       IN StrPut(sinfo, sinfo.rv.len - Len(src), src)

\* the decimal digits of a positive number, as characters
RECURSIVE Digits(_)
Digits(num) ==
  IF num < 10 THEN <<48 + num>>
  ELSE Append(Digits(num \div 10), 48 + (num % 10))

\* write_i: neg is set for a negative number only, and read for every
\* number but zero: for a positive number it holds whatever was on the stack
str_write_i(s, num, neg_junk, moved, fresh, junk) ==
  IF FIO_STRING_IS_FROZEN(s) THEN StrReturn(s, str_info(s), FALSE)
  ELSE LET neg == IF num < 0 THEN TRUE ELSE neg_junk
           text == IF num = 0 THEN <<48>>
                   ELSE (IF neg THEN <<45>> ELSE <<>>)
                        \o Digits(IF num < 0 THEN 0 - num ELSE num)
           i == str_resize(s, str_len(s) + Len(text), moved, fresh, junk)
       IN StrPut(i, i.rv.len - Len(text), text)

\* concat: src is the content of the other string
str_concat(dest, src, moved, fresh, junk) ==
  IF FIO_STRING_IS_FROZEN(dest) \/ Len(src) = 0
  THEN StrReturn(dest, str_info(dest), FALSE)
  ELSE LET old_len == str_len(dest)
           sinfo == str_resize(dest, Len(src) + old_len, moved, fresh, junk)
       IN StrPut(sinfo, old_len, src)

\* replace, when the bytes replaced are inside the string
ReplaceInside(s, sinfo, start_pos, old_len, src, moved, fresh, junk) ==
  LET src_len == Len(src)
      new_size == sinfo.len + (src_len - old_len)
      grown == IF old_len < src_len
               THEN str_resize(s, sinfo.len + (src_len - old_len),
                               moved, fresh, junk)
               ELSE StrReturn(s, sinfo, FALSE)
      n == (grown.rv.len - start_pos) - old_len
      shifted ==
        IF old_len # src_len
        THEN StrReturn(
               [grown.s EXCEPT !.mem = MoveBytes(@, start_pos + src_len,
                                                 start_pos + old_len, n,
                                                 junk)],
               grown.rv,
               \/ grown.oob
               \/ Outside(grown.s.mem, start_pos + src_len, n)
               \/ Outside(grown.s.mem, start_pos + old_len, n))
        ELSE grown
      copied == IF src_len # 0 THEN StrPut(shifted, start_pos, src)
                ELSE shifted
      final == str_resize(copied.s, new_size, moved, fresh, junk)
  IN StrReturn(final.s, final.rv, copied.oob \/ final.oob)

\* replace: a negative start_pos counts from the end, using s->len
str_replace(s, start_pos0, old_len, src, moved, fresh, junk) ==
  LET sinfo == str_info(s)
      backwards == start_pos0 + s.len + 1
      start_pos == IF start_pos0 >= 0 THEN start_pos0
                   ELSE IF backwards < 0 THEN 0 ELSE backwards
  IN IF FIO_STRING_IS_FROZEN(s) \/ (old_len = 0 /\ Len(src) = 0)
     THEN StrReturn(s, sinfo, FALSE)
     ELSE IF start_pos + old_len >= sinfo.len
     THEN str_write(IF FIO_STRING_IS_SMALL(s)
                    THEN FIO_STRING_SMALL_LEN_SET(s, start_pos)
                    ELSE [s EXCEPT !.len = start_pos],
                    src, moved, fresh, junk)
     ELSE ReplaceInside(s, sinfo, start_pos, old_len, src, moved, fresh, junk)

\* vprintf: text is what vsnprintf makes of the format and the arguments;
\* it is written with its NUL, len bytes before the end the info gives
str_vprintf(s, text, moved, fresh, junk) ==
  LET len == Len(text)
  IN IF len <= 0 THEN StrReturn(s, str_info(s), FALSE)
     ELSE LET sinfo == str_resize(s, len + str_len(s), moved, fresh, junk)
          IN StrPut(sinfo, sinfo.rv.len - len, Append(text, 0))

\* the base64 encoding arrays, as characters: A-Z a-z 0-9 and + / = or
\* - _ =
Encoding(url_encoded, i) ==
  IF i < 26 THEN 65 + i
  ELSE IF i < 52 THEN 97 + (i - 26)
  ELSE IF i < 62 THEN 48 + (i - 52)
  ELSE IF i = 62 THEN (IF url_encoded = 0 THEN 43 ELSE 45)
  ELSE IF i = 63 THEN (IF url_encoded = 0 THEN 47 ELSE 95)
  ELSE 61

\* the loop of write_b64enc: three bytes make four characters
RECURSIVE B64Groups(_, _)
B64Groups(data, url) ==
  IF Len(data) < 3 THEN <<>>
  ELSE LET tmp1 == data[1]
           tmp2 == data[2]
           tmp3 == data[3]
       IN << Encoding(url, (tmp1 \div 4) % 64),
             Encoding(url, ((tmp1 % 4) * 16) + ((tmp2 \div 16) % 16)),
             Encoding(url, ((tmp2 % 16) * 4) + ((tmp3 \div 64) % 4)),
             Encoding(url, tmp3 % 64) >>
          \o B64Groups(SubSeq(data, 4, Len(data)), url)

\* write padding / ending
B64Tail(data, url) ==
  LET groups == Len(data) \div 3
      mod == Len(data) - (groups * 3)
      tmp1 == data[groups * 3 + 1]
      tmp2 == data[groups * 3 + 2]
  IN IF mod = 2
     THEN << Encoding(url, (tmp1 \div 4) % 64),
             Encoding(url, ((tmp1 % 4) * 16) + ((tmp2 \div 16) % 16)),
             Encoding(url, (tmp2 % 16) * 4),
             61 >>
     ELSE IF mod = 1
     THEN << Encoding(url, (tmp1 \div 4) % 64),
             Encoding(url, (tmp1 % 4) * 16),
             61, 61 >>
     ELSE <<>>

\* write_b64enc: the encoded bytes are written from the length the string
\* had on, into the memory resize returned
str_write_b64enc(s, data, url_encoded, moved, fresh, junk) ==
  IF Len(data) = 0 THEN StrReturn(s, str_info(s), FALSE)
  ELSE LET text == B64Groups(data, url_encoded) \o B64Tail(data, url_encoded)
           org_len == str_len(s)
           i == str_resize(s, org_len + Len(text), moved, fresh, junk)
       IN StrPut(i, org_len, text)

(***************************************************************************)
(* Dynamic string: the calls a program makes.  The allocator's choices     *)
(* (whether realloc moves the memory, what fresh memory holds) are inputs  *)
(* of each call.  A write outside the string's memory either faults or     *)
(* lands in foreign memory; the model does not follow the program after    *)
(* either.                                                                 *)
(***************************************************************************)
notstrvars == <<memvars, refvars, mapvars, aryvars, hmapvars, jsonvars,
                arenavars, listvars>>

StrCallable == sstate = "ok" /\ snops < MaxStrOps

StrAfterWrite(oob) == IF oob THEN {"crash", "corrupt"} ELSE {"ok"}

\* the call returned r
StrCalled(op, r) ==
  /\ str' = r.s
  /\ sfresh' = IF r.s.data = sfresh THEN sfresh + 1 ELSE sfresh
  /\ sstate' \in StrAfterWrite(r.oob)
  /\ sres' = [op |-> op, rv |-> r.rv]
  /\ snops' = snops + 1
  /\ UNCHANGED notstrvars

string_freeze ==
  /\ StrCallable
  /\ StrCalled("freeze", StrReturn(str_freeze(str), NoInfo, FALSE))

string_resize(size, moved, junk) ==
  /\ StrCallable
  /\ \E r \in {str_resize(str, size, moved, sfresh, junk)} :
       StrCalled("resize", r)

string_reserve(amount, moved, junk) ==
  /\ StrCallable
  /\ \E r \in {str_reserve(str, amount, moved, sfresh, junk)} :
       StrCalled("reserve", r)

string_compact(moved, junk) ==
  /\ StrCallable
  /\ \E s \in {str_compact(str, moved, sfresh, junk)} :
       StrCalled("compact", StrReturn(s, NoInfo, FALSE))

string_write(src, moved, junk) ==
  /\ StrCallable
  /\ \E r \in {str_write(str, src, moved, sfresh, junk)} :
       StrCalled("write", r)

string_write_i(num, neg_junk, moved, junk) ==
  /\ StrCallable
  /\ \E r \in {str_write_i(str, num, neg_junk, moved, sfresh, junk)} :
       StrCalled("write_i", r)

string_concat(src, moved, junk) ==
  /\ StrCallable
  /\ \E r \in {str_concat(str, src, moved, sfresh, junk)} :
       StrCalled("concat", r)

\* a string inside the container is given positions from its start only:
\* its s->len is part of the bytes of the string
string_replace(start_pos, old_len, src, moved, junk) ==
  /\ StrCallable
  /\ start_pos >= 0 \/ ~FIO_STRING_IS_SMALL(str)
  /\ \E r \in {str_replace(str, start_pos, old_len, src, moved, sfresh,
                           junk)} :
       StrCalled("replace", r)

string_printf(text, moved, junk) ==
  /\ StrCallable
  /\ \E r \in {str_vprintf(str, text, moved, sfresh, junk)} :
       StrCalled("printf", r)

string_write_b64enc(data, url_encoded, moved, junk) ==
  /\ StrCallable
  /\ \E r \in {str_write_b64enc(str, data, url_encoded, moved, sfresh,
                                junk)} :
       StrCalled("write_b64enc", r)

\* "hi", "!", " 42", "M" and "Man"
StrSources == {<<>>, <<104, 105>>}
StrTexts == {<<>>, <<32, 52, 50>>}
StrBinaries == {<<77>>, <<77, 97, 110>>}

StrNext ==
  \E moved \in BOOLEAN, junk \in JunkValues :
    \/ string_freeze
    \/ \E size \in {0, 3, 50} : string_resize(size, moved, junk)
    \/ \E amount \in {20, 60} : string_reserve(amount, moved, junk)
    \/ string_compact(moved, junk)
    \/ \E src \in StrSources : string_write(src, moved, junk)
    \/ \E num \in {0, 7, -12}, neg_junk \in BOOLEAN :
         string_write_i(num, neg_junk, moved, junk)
    \/ \E src \in StrSources : string_concat(src, moved, junk)
    \/ \E start_pos \in {0, 1, -1}, old_len \in {0, 1},
          src \in StrSources \cup {<<33>>} :
         string_replace(start_pos, old_len, src, moved, junk)
    \/ \E text \in StrTexts : string_printf(text, moved, junk)
    \/ \E data \in StrBinaries, url_encoded \in {0, 1} :
         string_write_b64enc(data, url_encoded, moved, junk)

InitStr ==
  /\ MemInit /\ RefInit /\ MapInit(TRUE) /\ AryInit("int") /\ HMapInit
  /\ JsonInit /\ ArenaInit /\ ListInit /\ StrInit

SpecStr == InitStr /\ [][StrNext]_vars

(***************************************************************************)
(* JSON parser (FIO_JSON).  The caller's buffer lies in memory between a   *)
(* byte that precedes it and the bytes that follow it; `text` is that      *)
(* memory, `buffer` an index into it and `stop` the index one past the     *)
(* buffer's last byte.  Index 0 is the NULL pointer.                       *)
(***************************************************************************)
JStart == 2
JText(buf, before, past) == <<before>> \o buf \o past \o <<0>>
JAt(text, i) == IF i \in 1..Len(text) THEN text[i] ELSE 0
JSlice(text, from, n) == [k \in 1..n |-> JAt(text, from + k - 1)]

\* memchr(from, c, n)
JMemchr(text, from, c, n) ==
  LET hits == {j \in from..(from + n - 1) : JAt(text, j) = c}
  IN  IF hits = {} THEN NULL
      ELSE CHOOSE j \in hits : \A k \in hits : j <= k

\* the loop of the block comment: find a '/', step over it, stop when the
\* byte before it is a '*'
RECURSIVE JSkipBlock(_, _, _)
JSkipBlock(text, buffer, stop) ==
  LET f == JMemchr(text, buffer, 47, stop - buffer)
  IN  IF f = NULL THEN NULL
      ELSE IF JAt(text, f + 1 - 2) # 42 THEN JSkipBlock(text, f + 1, stop)
      ELSE f + 1

fio_json_____skip_comments(text, buffer, stop) ==
  IF \/ JAt(text, buffer) = 35
     \/ /\ stop - buffer > 2
        /\ JAt(text, buffer) = 47
        /\ JAt(text, buffer + 1) = 47
  THEN JMemchr(text, buffer + 1, 10, stop - (buffer + 1))
  ELSE IF /\ stop - buffer > 3
          /\ JAt(text, buffer) = 47
          /\ JAt(text, buffer + 1) = 42
  THEN JSkipBlock(text, buffer, stop)
  ELSE NULL

\* `escaped` of fio_json_____consume_string
RECURSIVE JEscaped(_, _, _)
JEscaped(text, buffer, escaped) ==
  IF JAt(text, buffer - escaped) = 92
  THEN JEscaped(text, buffer, escaped + 1)
  ELSE escaped

\* the closing quote, or NULL
RECURSIVE JClosingQuote(_, _, _)
JClosingQuote(text, buffer, stop) ==
  LET f == JMemchr(text, buffer, 34, stop - buffer)
  IN  IF f = NULL THEN NULL
      ELSE IF JEscaped(text, f, 1) % 2 = 1 THEN f
      ELSE JClosingQuote(text, f + 1, stop)

\* a callback as it was delivered: its name, the offset of the token that
\* caused it, its argument, what it returned, and whether the token came
\* straight after a comma
JCall(name, at, arg, ret, prev) ==
  [name |-> name, at |-> at, arg |-> arg, ret |-> ret, comma |-> prev = 44]

\* the pointer returned and the callbacks made
JStep(pos, cbs) == [pos |-> pos, cbs |-> cbs]

fio_json_____consume_string(text, buffer, stop, prev) ==
  LET start == buffer + 1
      q == JClosingQuote(text, start, stop)
  IN  IF q = NULL THEN JStep(NULL, <<>>)
      ELSE JStep(q + 1,
                 <<JCall("on_string", buffer - JStart,
                         JSlice(text, start, q - start), 0, prev)>>)

\* ---- fio_atol and fio_atof ----
JIsSpace(c) == c \in (9..13) \cup {32}

RECURSIVE JSkipSpace(_, _)
JSkipSpace(text, q) ==
  IF JIsSpace(JAt(text, q)) THEN JSkipSpace(text, q + 1) ELSE q

RECURSIVE JSkipZeros(_, _)
JSkipZeros(text, q) ==
  IF JAt(text, q) = 48 THEN JSkipZeros(text, q + 1) ELSE q

\* the value of a digit in the base, -1 when the byte is no digit of it
JDigit(c, base) ==
  IF c >= 48 /\ c <= 57 /\ c < 48 + base THEN c - 48
  ELSE IF base = 16 /\ c >= 65 /\ c <= 70 THEN c - 55
  ELSE IF base = 16 /\ c >= 97 /\ c <= 102 THEN c - 87
  ELSE -1

\* fio___aton_read_b2_b2, _b2_b10 and _b2_b16 while the value is below
\* the limit that ends their first loop (MaxDigits digits stay below it)
RECURSIVE fio___aton_read(_, _, _, _)
fio___aton_read(text, q, base, val) ==
  IF JDigit(JAt(text, q), base) < 0 THEN [val |-> val, pos |-> q]
  ELSE fio___aton_read(text, q + 1, base,
                       val * base + JDigit(JAt(text, q), base))

\* CALC_N_VAL and CALC_N_VAL_EMBEDABLE with expo = 0
JSigned(n, invert) == [val |-> IF invert THEN 0 - n.val ELSE n.val,
                       pos |-> n.pos]

fio_atol(text, pstr) ==
  LET q0 == JSkipSpace(text, pstr)
      invert == JAt(text, q0) = 45
      q == IF JAt(text, q0) \in {45, 43} THEN q0 + 1 ELSE q0
      c == JAt(text, q)
      d == JAt(text, q + 1)
      is_hex(at) ==
        JSigned(fio___aton_read(text, JSkipZeros(text, at + 1), 16, 0),
                invert)
      is_binary(at) ==
        JSigned(fio___aton_read(text, JSkipZeros(text, at + 1), 2, 0),
                invert)
  IN  IF c \in {120, 88} THEN is_hex(q)
      ELSE IF c \in {98, 66} THEN is_binary(q)
      ELSE IF c = 48
      THEN IF d \in {120, 88} THEN is_hex(q + 1)
           ELSE IF d \in {98, 66} THEN is_binary(q + 1)
           ELSE JSigned(fio___aton_read(text, JSkipZeros(text, q + 1), 8, 0),
                        invert)
      ELSE JSigned(fio___aton_read(text, q, 10, 0), invert)

\* the lower-case form of a letter (c | 32)
JLower(c) == IF c >= 65 /\ c <= 90 THEN c + 32 ELSE c

JMatches(text, q, word) ==
  \A k \in 1..Len(word) : JLower(JAt(text, q + k - 1)) = word[k]

RECURSIVE JSkipDigits(_, _)
JSkipDigits(text, q) ==
  IF JDigit(JAt(text, q), 10) >= 0 THEN JSkipDigits(text, q + 1) ELSE q

\* strtod on decimal text, "inf", "infinity" and "nan": the index after the
\* longest prefix that is a number, `pstr` itself when there is none
JStrtodEnd(text, pstr) ==
  LET q0 == JSkipSpace(text, pstr)
      q == IF JAt(text, q0) \in {45, 43} THEN q0 + 1 ELSE q0
      int_end == JSkipDigits(text, q)
      frac_end == IF JAt(text, int_end) = 46
                  THEN JSkipDigits(text, int_end + 1)
                  ELSE int_end
      has_digits == int_end > q \/ frac_end > int_end + 1
      e0 == frac_end + 1
      e1 == IF JAt(text, e0) \in {45, 43} THEN e0 + 1 ELSE e0
      exp_end == IF /\ JLower(JAt(text, frac_end)) = 101
                    /\ JSkipDigits(text, e1) > e1
                 THEN JSkipDigits(text, e1)
                 ELSE frac_end
  IN  IF JMatches(text, q, <<105, 110, 102, 105, 110, 105, 116, 121>>)
      THEN q + 8
      ELSE IF JMatches(text, q, <<105, 110, 102>>) THEN q + 3
      ELSE IF JMatches(text, q, <<110, 97, 110>>) THEN q + 3
      ELSE IF has_digits THEN exp_end
      ELSE pstr

\* the double is kept as the text strtod converted
fio_atof(text, pstr) ==
  [val |-> JSlice(text, pstr, JStrtodEnd(text, pstr) - pstr),
   pos |-> JStrtodEnd(text, pstr)]

fio_json_____consume_number(text, buffer, stop, prev) ==
  LET i == fio_atol(text, buffer)
      f == fio_atof(text, buffer)
  IN  IF i.pos < stop /\ (JAt(text, i.pos) = 46
                          \/ BitOr(JAt(text, i.pos), 32)
                               \in {101, 120, 112, 105})
      THEN JStep(f.pos,
                 <<JCall("on_float", buffer - JStart, f.val, 0, prev)>>)
      ELSE JStep(i.pos,
                 <<JCall("on_number", buffer - JStart, i.val, 0, prev)>>)

\* ---- fio_json_____identify ----
NestShl(nesting, bit) ==
  [k \in 1..NestingBits |-> IF k = 1 THEN bit ELSE nesting[k - 1]]
NestShr(nesting) ==
  [k \in 1..NestingBits |-> IF k = NestingBits THEN 0 ELSE nesting[k + 1]]

JIsBlank(c) == c \in {9, 10, 13, 32}

\* the eight bytes at a time loop: `addr` is the buffer's address modulo 8
RECURSIVE JSkipWords(_, _, _)
JSkipWords(text, buffer, stop) ==
  IF /\ buffer + 8 < stop
     /\ \A k \in 0..7 : JIsBlank(JAt(text, buffer + k))
  THEN JSkipWords(text, buffer + 8, stop)
  ELSE buffer

JSkipBlank(text, buffer, stop, addr) ==
  IF (addr + (buffer + 1 - JStart)) % 8 = 0
  THEN JSkipWords(text, buffer + 1, stop)
  ELSE buffer + 1

\* what fio_json_____identify leaves: the parser, the pointer returned
\* (NULL on failure), the callbacks made, and the byte taken when it was
\* neither whitespace nor a comment
JIdent(ps, pos, cbs, sig) == [p |-> ps, pos |-> pos, cbs |-> cbs, sig |-> sig]

\* the labels missing_separator .. too_deep
JError(ps, buffer, cbs, prev) ==
  JIdent(ps, NULL,
         cbs \o <<JCall("on_error", buffer - JStart, 0, 0, prev)>>, 0)

\* the statement after the switch
JBreak(ps, step, sig) ==
  JIdent([ps EXCEPT !.expect = U8((ps.expect * 2)
                                  + (BitXor(ps.expect, 2) \div 2))],
         step.pos, step.cbs, sig)

JNumberStart == {43, 45} \cup (48..57) \cup {120, 46, 101, 69, 105, 73}

fio_json_____identify(ps, text, buffer, stop, prev, addr, start_ret) ==
  LET c == JAt(text, buffer)
      at == buffer - JStart
      value_unexpected == ps.depth # 0 /\ BitAnd(ps.expect, 2) = 0
  IN
  CASE JIsBlank(c) ->
         JIdent(ps, JSkipBlank(text, buffer, stop, addr), <<>>, 0)
    [] c = 44 ->
         IF ps.depth = 0 \/ BitAnd(ps.expect, 4) = 0
         THEN JError(ps, buffer, <<>>, prev)
         ELSE JIdent([ps EXCEPT !.expect = ps.nesting[1] * 2],
                     buffer + 1, <<>>, c)
    [] c = 58 ->
         IF ps.depth = 0 \/ BitAnd(ps.expect, 1) = 0
         THEN JError(ps, buffer, <<>>, prev)
         ELSE JIdent([ps EXCEPT !.expect = 2], buffer + 1, <<>>, c)
    [] c = 34 ->
         IF ps.depth # 0 /\ BitAnd(ps.expect, 5) # 0
         THEN JError(ps, buffer, <<>>, prev)
         ELSE With(fio_json_____consume_string(text, buffer, stop, prev),
                   LAMBDA r : IF r.pos = NULL
                              THEN JError(ps, buffer, <<>>, prev)
                              ELSE JBreak(ps, r, c))
    [] c = 123 ->
         IF ps.depth # 0 /\ BitAnd(ps.expect, 2) = 0
         THEN JError(ps, buffer, <<>>, prev)
         ELSE IF ps.depth = JSON_MAX_DEPTH
         THEN JError([ps EXCEPT !.expect = 0,
                                !.nesting = NestShl(ps.nesting, 0)],
                     buffer, <<>>, prev)
         ELSE JIdent([ps EXCEPT !.expect = 0,
                                !.nesting = NestShl(ps.nesting, 0),
                                !.depth = ps.depth + 1],
                     buffer + 1,
                     <<JCall("on_start_object", at, 0, start_ret, prev)>>, c)
    [] c = 125 ->
         IF ps.nesting[1] = 1 \/ ps.depth = 0 \/ BitAnd(ps.expect, 3) # 0
         THEN JError(ps, buffer, <<>>, prev)
         ELSE JIdent([ps EXCEPT !.nesting = NestShr(ps.nesting),
                                !.expect = 4,
                                !.depth = ps.depth - 1],
                     buffer + 1,
                     <<JCall("on_end_object", at, 0, 0, prev)>>, c)
    [] c = 91 ->
         IF ps.depth # 0 /\ BitAnd(ps.expect, 2) = 0
         THEN JError(ps, buffer, <<>>, prev)
         ELSE IF ps.depth = JSON_MAX_DEPTH
         THEN JError([ps EXCEPT !.expect = 2,
                                !.nesting = NestShl(ps.nesting, 1)],
                     buffer,
                     <<JCall("on_start_array", at, 0, start_ret, prev)>>,
                     prev)
         ELSE JIdent([ps EXCEPT !.expect = 2,
                                !.nesting = NestShl(ps.nesting, 1),
                                !.depth = ps.depth + 1],
                     buffer + 1,
                     <<JCall("on_start_array", at, 0, start_ret, prev)>>, c)
    [] c = 93 ->
         IF ps.nesting[1] = 0 \/ ps.depth = 0
         THEN JError(ps, buffer, <<>>, prev)
         ELSE JIdent([ps EXCEPT !.nesting = NestShr(ps.nesting),
                                !.expect = 4,
                                !.depth = ps.depth - 1],
                     buffer + 1,
                     <<JCall("on_end_array", at, 0, 0, prev)>>, c)
    [] c \in {78, 110} ->
         IF value_unexpected THEN JError(ps, buffer, <<>>, prev)
         ELSE IF \/ buffer + 4 > stop
                 \/ JAt(text, buffer + 1) # 117
                 \/ JAt(text, buffer + 2) # 108
                 \/ JAt(text, buffer + 3) # 108
         THEN IF \/ buffer + 3 > stop
                 \/ BitOr(JAt(text, buffer + 1), 32) # 97
                 \/ BitOr(JAt(text, buffer + 2), 32) # 110
              THEN JIdent(ps, NULL, <<>>, 0)
              ELSE JBreak(ps, JStep(buffer + 3, <<>>), c)
         ELSE JBreak(ps, JStep(buffer + 4,
                               <<JCall("on_null", at, 0, 0, prev)>>), c)
    [] c = 116 ->
         IF value_unexpected THEN JError(ps, buffer, <<>>, prev)
         ELSE IF \/ buffer + 4 > stop
                 \/ JAt(text, buffer + 1) # 114
                 \/ JAt(text, buffer + 2) # 117
                 \/ JAt(text, buffer + 3) # 101
         THEN JIdent(ps, NULL, <<>>, 0)
         ELSE JBreak(ps, JStep(buffer + 4,
                               <<JCall("on_true", at, 0, 0, prev)>>), c)
    [] c = 102 ->
         IF value_unexpected THEN JError(ps, buffer, <<>>, prev)
         ELSE IF \/ buffer + 5 > stop
                 \/ JAt(text, buffer + 1) # 97
                 \/ JAt(text, buffer + 2) # 108
                 \/ JAt(text, buffer + 3) # 115
                 \/ JAt(text, buffer + 4) # 101
         THEN JIdent(ps, NULL, <<>>, 0)
         ELSE JBreak(ps, JStep(buffer + 5,
                               <<JCall("on_false", at, 0, 0, prev)>>), c)
    [] c \in JNumberStart ->
         IF value_unexpected THEN JError(ps, buffer, <<>>, prev)
         ELSE With(fio_json_____consume_number(text, buffer, stop, prev),
                   LAMBDA r : IF r.pos = NULL
                              THEN JError(ps, buffer, <<>>, prev)
                              ELSE JBreak(ps, r, c))
    [] c \in {35, 47} ->
         JIdent(ps, fio_json_____skip_comments(text, buffer, stop), <<>>, 0)
    [] OTHER -> JIdent(ps, NULL, <<>>, 0)

\* ---- fio_json_parse ----
\* the loop's locals: the parser, `buffer`, the callbacks delivered so far
\* and the last byte taken
JLoop(ps, buffer, calls, prev) ==
  [p |-> ps, buffer |-> buffer, calls |-> calls, prev |-> prev]

JNextLoop(lp, r) ==
  JLoop(r.p, r.pos, lp.calls \o r.cbs, IF r.sig = 0 THEN lp.prev ELSE r.sig)

\* `failed:` returns last - start
JFailed(lp, r) ==
  [p |-> r.p, prev |-> lp.prev, calls |-> lp.calls \o r.cbs,
   rv |-> lp.buffer - JStart, failed |-> TRUE, last |-> lp.buffer - JStart]

JDone(lp) ==
  [p |-> IF lp.p.depth = 0 THEN [lp.p EXCEPT !.expect = 0] ELSE lp.p,
   prev |-> lp.prev,
   calls |-> IF lp.p.depth = 0
             THEN lp.calls \o <<JCall("on_json", lp.buffer - JStart, 0, 0,
                                      lp.prev)>>
             ELSE lp.calls,
   rv |-> lp.buffer - JStart, failed |-> FALSE, last |-> 0]

\* while (p->depth && buffer < stop)
RECURSIVE JSecondLoop(_, _, _, _, _)
JSecondLoop(lp, text, stop, addr, start_ret) ==
  IF lp.p.depth # 0 /\ lp.buffer < stop
  THEN With(fio_json_____identify(lp.p, text, lp.buffer, stop, lp.prev,
                                  addr, start_ret),
            LAMBDA r : IF r.pos = NULL THEN JFailed(lp, r)
                       ELSE JSecondLoop(JNextLoop(lp, r), text, stop, addr,
                                        start_ret))
  ELSE JDone(lp)

\* do { ... } while (!p->expect && buffer < stop)
RECURSIVE JFirstLoop(_, _, _, _, _)
JFirstLoop(lp, text, stop, addr, start_ret) ==
  With(fio_json_____identify(lp.p, text, lp.buffer, stop, lp.prev, addr,
                             start_ret),
       LAMBDA r : IF r.pos = NULL THEN JFailed(lp, r)
                  ELSE IF r.p.expect = 0 /\ r.pos < stop
                  THEN JFirstLoop(JNextLoop(lp, r), text, stop, addr,
                                  start_ret)
                  ELSE JSecondLoop(JNextLoop(lp, r), text, stop, addr,
                                   start_ret))

\* `env` is what the call cannot choose: the byte before the buffer, the
\* bytes after it, the buffer's address modulo 8 and what the caller's
\* on_start_object / on_start_array return
fio_json_parse(ps, prev, buf, env) ==
  JFirstLoop(JLoop(ps, JStart, <<>>, prev),
             JText(buf, env.before, env.past), JStart + Len(buf),
             env.addr, env.start_ret)

\* ---- the calls ----
\* { } [ ] , : "a" 1 true tr e @ space and the comment /**/
JTokens ==
  {<<123>>, <<125>>, <<91>>, <<93>>, <<44>>, <<58>>, <<34, 97, 34>>, <<49>>,
   <<116, 114, 117, 101>>, <<116, 114>>, <<101>>, <<64>>, <<32>>,
   <<47, 42, 42, 47>>}

RECURSIVE JRepeat(_, _)
JRepeat(token, n) == IF n = 0 THEN <<>> ELSE token \o JRepeat(token, n - 1)

\* [1,]  [1, ]  {"a":1,}  ,}  {"a":tr  [1,/**/]  # and a newline, then 1
\* nine spaces and 1, [-12,0x1f,1.5e3], "a\"", JSON_MAX_DEPTH + 1 times [
JLongTexts ==
  {<<91, 49, 44, 93>>, <<91, 49, 44, 32, 93>>,
   <<123, 34, 97, 34, 58, 49, 44, 125>>, <<44, 125>>,
   <<123, 34, 97, 34, 58, 116, 114>>, <<91, 49, 44, 47, 42, 42, 47, 93>>,
   <<35, 10, 49>>, JRepeat(<<32>>, 9) \o <<49>>,
   <<91, 45, 49, 50, 44, 48, 120, 49, 102, 44, 49, 46, 53, 101, 51, 93>>,
   <<34, 97, 92, 34, 34>>, JRepeat(<<91>>, JSON_MAX_DEPTH + 1)}

JBuffers ==
  JTokens \cup {s \o t : s \in JTokens, t \in JTokens} \cup JLongTexts

\* the surroundings of a call: the usual ones, a '*' before the buffer, a
\* digit after it, an address one short of a multiple of 8, and callbacks
\* that ask to stop
JEnvs ==
  {JDefaultEnv, [JDefaultEnv EXCEPT !.before = 42],
   [JDefaultEnv EXCEPT !.past = <<49>>], [JDefaultEnv EXCEPT !.addr = 7],
   [JDefaultEnv EXCEPT !.start_ret = -1]}

notjsonvars == <<memvars, refvars, mapvars, aryvars, hmapvars, strvars,
                 arenavars, listvars>>

json_parse(buf, env) ==
  /\ jnops < MaxJsonCalls
  /\ \E r \in {fio_json_parse(jp, jprev, buf, env)} :
       /\ jp' = r.p
       /\ jprev' = r.prev
       /\ jres' = [NoJsonResult EXCEPT
                     !.op = "parse", !.input = buf, !.env = env,
                     !.calls = r.calls, !.rv = r.rv, !.failed = r.failed,
                     !.last = r.last]
  /\ jnops' = jnops + 1
  /\ UNCHANGED notjsonvars

JsonNext ==
  \E buf \in JBuffers, env \in JEnvs : json_parse(buf, env)

InitJson ==
  /\ MemInit /\ RefInit /\ MapInit(TRUE) /\ AryInit("int") /\ HMapInit
  /\ StrInit /\ JsonInit /\ ArenaInit /\ ListInit

SpecJson == InitJson /\ [][JsonNext]_vars

(***************************************************************************)
(* Soft types (FIOBJ) and their JSON form.  A FIOBJ is a tagged pointer:   *)
(* its class and, for null, true, false and small numbers, the value       *)
(* itself; for every other class the address of a cell of the heap.  The   *)
(* strings here hold bytes below 128 and the numbers fit the pointer.      *)
(***************************************************************************)
FIOBJ_T_NUMBER == 1
FIOBJ_T_PRIMITIVE == 2
FIOBJ_T_STRING == 3
FIOBJ_T_ARRAY == 4
FIOBJ_T_HASH == 5
FIOBJ_T_FLOAT == 6
FIOBJ_T_NULL == 2
FIOBJ_T_TRUE == 18
FIOBJ_T_FALSE == 34
FIOBJ_JSON_MAX_NESTING == 28

fiobj_null == [class |-> FIOBJ_T_PRIMITIVE, ptr |-> FIOBJ_T_NULL]
fiobj_true == [class |-> FIOBJ_T_PRIMITIVE, ptr |-> FIOBJ_T_TRUE]
fiobj_false == [class |-> FIOBJ_T_PRIMITIVE, ptr |-> FIOBJ_T_FALSE]
fiobj_num_new(i) == [class |-> FIOBJ_T_NUMBER, ptr |-> i]

\* a cell of the heap: a string container, the elements of an array, the
\* keys and values of a hash (key, value, key, value, ...) in insertion
\* order, or the text of a float
FCell(class, s, items, f) ==
  [class |-> class, s |-> s, items |-> items, f |-> f]

\* <type>_new2: the object is the next cell of the heap
FNew(heap, cell) == [heap |-> Append(heap, cell),
                     o |-> [class |-> cell.class, ptr |-> Len(heap) + 1]]

\* how the allocator answers the strings' calls
JAlloc(moved, junk) == [moved |-> moved, fresh |-> ContainerData + 1,
                        junk |-> junk]
FWrite(s, src, al) == str_write(s, src, al.moved, al.fresh, al.junk).s

\* ---- write_escape ----
JPlain(c) == (c > 34 /\ c < 127 /\ c # 92) \/ c = 33 \/ c = 32
JShortEscapes == {8, 12, 10, 13, 9, 34, 92, 47}
escape_hex_chars(n) == IF n < 10 THEN 48 + n ELSE 55 + n

\* the bytes the second loop writes for one byte of the source
JEscapeByte(c) ==
  IF JPlain(c) THEN <<c>>
  ELSE IF c = 8 THEN <<92, 98>>
  ELSE IF c = 12 THEN <<92, 102>>
  ELSE IF c = 10 THEN <<92, 110>>
  ELSE IF c = 13 THEN <<92, 114>>
  ELSE IF c = 9 THEN <<92, 116>>
  ELSE IF c \in {34, 92, 47} THEN <<92, c>>
  ELSE IF c < 127
  THEN <<92, 117, 48, 48, escape_hex_chars(c \div 16),
         escape_hex_chars(c % 16)>>
  ELSE <<92, 120, escape_hex_chars(c \div 16), escape_hex_chars(c % 16)>>

RECURSIVE JEscape(_)
JEscape(src) ==
  IF src = <<>> THEN <<>> ELSE JEscapeByte(Head(src)) \o JEscape(Tail(src))

\* extra_len of the first loop
RECURSIVE JExtraLen(_)
JExtraLen(src) ==
  IF src = <<>> THEN 0
  ELSE (IF JPlain(Head(src)) THEN 0
        ELSE IF Head(src) \in JShortEscapes THEN 1 ELSE 5)
       + JExtraLen(Tail(src))

\* write_escape: the escaped bytes go to data + len of the info that
\* reserve returned, and the string is resized to that len plus their number
str_write_escape(s, src, moved, fresh, junk) ==
  IF JExtraLen(src) = 0 THEN str_write(s, src, moved, fresh, junk)
  ELSE LET dest == str_reserve(s, str_len(s) + JExtraLen(src) + Len(src),
                               moved, fresh, junk)
           put == StrPut(dest, dest.rv.len, JEscape(src))
           fin == str_resize(put.s, dest.rv.len + Len(JEscape(src)), moved,
                             fresh, junk)
       IN StrReturn(fin.s, fin.rv, put.oob \/ fin.oob)

\* ---- write_unescape ----
\* is_hex[c]
is_hex(c) ==
  IF c >= 48 /\ c <= 57 THEN c - 47
  ELSE IF c >= 65 /\ c <= 70 THEN c - 54
  ELSE IF c >= 97 /\ c <= 102 THEN c - 86
  ELSE 0

\* ((is_hex[a] - 1) << 4) | (is_hex[b] - 1)
JHexPair(a, b) == (is_hex(a) - 1) * 16 + (is_hex(b) - 1)

\* the UTF-8 bytes written for the code point u
JUtf8(u) ==
  IF u <= 127 THEN <<u>>
  ELSE IF u <= 2047 THEN <<192 + (u \div 64), 128 + (u % 64)>>
  ELSE IF u <= 65535
  THEN <<224 + (u \div 4096), 128 + ((u \div 64) % 64), 128 + (u % 64)>>
  ELSE <<240 + ((u \div 262144) % 8), 128 + ((u \div 4096) % 64),
         128 + ((u \div 64) % 64), 128 + (u % 64)>>

\* one escape: `q` is the index of the byte after the backslash; the bytes
\* written and the index where the loop goes on
JUnescapeOne(text, q) ==
  LET c == JAt(text, q)
      B(k) == JAt(text, q + k)
      hex4 == is_hex(B(1)) # 0 /\ is_hex(B(2)) # 0 /\ is_hex(B(3)) # 0
              /\ is_hex(B(4)) # 0
      u == JHexPair(B(1), B(2)) * 256 + JHexPair(B(3), B(4))
      pair == /\ JHexPair(B(1), B(2)) = 216
              /\ B(5) = 92 /\ B(6) = 117
              /\ is_hex(B(7)) # 0 /\ is_hex(B(8)) # 0
              /\ is_hex(B(9)) # 0 /\ is_hex(B(10)) # 0
      low == JHexPair(B(7), B(8)) * 256 + JHexPair(B(9), B(10))
      invalid_escape == [out |-> <<c>>, pos |-> q + 1]
  IN  IF c = 98 THEN [out |-> <<8>>, pos |-> q + 1]
      ELSE IF c = 102 THEN [out |-> <<12>>, pos |-> q + 1]
      ELSE IF c = 110 THEN [out |-> <<10>>, pos |-> q + 1]
      ELSE IF c = 114 THEN [out |-> <<13>>, pos |-> q + 1]
      ELSE IF c = 116 THEN [out |-> <<9>>, pos |-> q + 1]
      ELSE IF c = 117
      THEN IF ~hex4 THEN invalid_escape
           ELSE IF pair
           THEN [out |-> JUtf8(((u % 1024) * 1024) + (low % 1024) + 65536),
                 pos |-> q + 11]
           ELSE [out |-> JUtf8(u), pos |-> q + 5]
      ELSE IF c = 120
      THEN IF is_hex(B(1)) # 0 /\ is_hex(B(2)) # 0
           THEN [out |-> <<JHexPair(B(1), B(2))>>, pos |-> q + 3]
           ELSE invalid_escape
      ELSE IF c >= 48 /\ c <= 55
      THEN IF B(1) >= 48 /\ B(1) <= 55
           THEN [out |-> <<U8(((c - 48) * 8) + (B(1) - 48))>>, pos |-> q + 2]
           ELSE invalid_escape
      ELSE invalid_escape

\* the loop of write_unescape over text[q] .. text[end - 1]
RECURSIVE JUnescape(_, _, _)
JUnescape(text, q, end) ==
  IF q >= end THEN <<>>
  ELSE LET hit == JMemchr(text, q, 92, end - q)
           escape_pos == IF hit = NULL THEN end ELSE hit
           valid == IF JAt(text, q) # 92
                    THEN JSlice(text, q, escape_pos - q) ELSE <<>>
           src == IF JAt(text, q) # 92 THEN escape_pos ELSE q
       IN IF end - src = 1 THEN valid \o <<JAt(text, src)>>
          ELSE IF src >= end THEN valid
          ELSE valid \o JUnescapeOne(text, src + 1).out
                     \o JUnescape(text, JUnescapeOne(text, src + 1).pos, end)

\* write_unescape of the len bytes at text[q]
str_write_unescape(s, text, q, len, moved, fresh, junk) ==
  LET dest == str_reserve(s, str_len(s) + len, moved, fresh, junk)
      put == StrPut(dest, dest.rv.len, JUnescape(text, q, q + len))
      fin == str_resize(put.s,
                        dest.rv.len + Len(JUnescape(text, q, q + len)),
                        moved, fresh, junk)
  IN StrReturn(fin.s, fin.rv, put.oob \/ fin.oob)

\* ---- FIOBJ: equality, text and JSON output ----
FContainer(heap, o) == heap[o.ptr].s
FItems(heap, o) == heap[o.ptr].items

\* fio_ltoa in base 10
fio_ltoa(num) ==
  IF num = 0 THEN <<48>>
  ELSE IF num < 0 THEN <<45>> \o Digits(0 - num)
  ELSE Digits(num)

\* fiobj2cstr for the classes the formatter passes to it
fiobj2cstr(heap, o) ==
  IF o.class = FIOBJ_T_PRIMITIVE
  THEN IF o.ptr = FIOBJ_T_NULL THEN <<110, 117, 108, 108>>
       ELSE IF o.ptr = FIOBJ_T_TRUE THEN <<116, 114, 117, 101>>
       ELSE IF o.ptr = FIOBJ_T_FALSE THEN <<102, 97, 108, 115, 101>>
       ELSE <<>>
  ELSE IF o.class = FIOBJ_T_NUMBER THEN fio_ltoa(o.ptr)
  ELSE IF o.class = FIOBJ_T_FLOAT THEN heap[o.ptr].f
  ELSE IF o.class = FIOBJ_T_STRING THEN StrContent(FContainer(heap, o))
  ELSE <<>>

\* iseq: the same container, or the same length and bytes
str_iseq(heap, a, b) ==
  IF a.ptr = b.ptr THEN 1
  ELSE IF StrContent(FContainer(heap, a)) = StrContent(FContainer(heap, b))
  THEN 1
  ELSE 0

fiobj_is_eq(heap, a, b) ==
  IF a = b THEN 1
  ELSE IF a.class # b.class THEN 0
  ELSE IF a.class \in {FIOBJ_T_PRIMITIVE, FIOBJ_T_NUMBER, FIOBJ_T_FLOAT}
  THEN 0
  ELSE IF a.class = FIOBJ_T_STRING THEN str_iseq(heap, a, b)
  ELSE 0

RECURSIVE fiobj___json_format_internal__(_, _, _, _, _)
\* the loop over an array's elements, from element i on
RECURSIVE FFormatArray(_, _, _, _, _, _)
FFormatArray(json, heap, o, i, level, al) ==
  IF i > Len(FItems(heap, o)) THEN json
  ELSE With(fiobj___json_format_internal__(json, heap, FItems(heap, o)[i],
                                           level, al),
            LAMBDA w : FFormatArray(IF i + 1 <= Len(FItems(heap, o))
                                    THEN FWrite(w, <<44>>, al) ELSE w,
                                    heap, o, i + 1, level, al))

\* FIO_MAP_EACH over a hash's couplets, from couplet i on
RECURSIVE FFormatHash(_, _, _, _, _, _)
FFormatHash(json, heap, o, i, level, al) ==
  IF 2 * i > Len(FItems(heap, o)) THEN json
  ELSE With(fiobj___json_format_internal__(
              FWrite(str_write_escape(
                       FWrite(json, <<34>>, al),
                       fiobj2cstr(heap, FItems(heap, o)[2 * i - 1]),
                       al.moved, al.fresh, al.junk).s,
                     <<34, 58>>, al),
              heap, FItems(heap, o)[2 * i], level, al),
            LAMBDA w : FFormatHash(IF 2 * i < Len(FItems(heap, o))
                                   THEN FWrite(w, <<44>>, al) ELSE w,
                                   heap, o, i + 1, level, al))

\* `json` is the container of the string written to
fiobj___json_format_internal__(json, heap, o, level, al) ==
  IF o.class \in {FIOBJ_T_PRIMITIVE, FIOBJ_T_NUMBER, FIOBJ_T_FLOAT}
  THEN FWrite(json, fiobj2cstr(heap, o), al)
  ELSE IF o.class = FIOBJ_T_ARRAY
  THEN IF level = FIOBJ_JSON_MAX_NESTING
       THEN FWrite(json, <<91, 32, 93>>, al)
       ELSE FWrite(FFormatArray(FWrite(json, <<91>>, al), heap, o, 1,
                                level + 1, al),
                   <<93>>, al)
  ELSE IF o.class = FIOBJ_T_HASH
  THEN IF level = FIOBJ_JSON_MAX_NESTING
       THEN FWrite(json, <<123, 32, 125>>, al)
       ELSE FWrite(FFormatHash(FWrite(json, <<123>>, al), heap, o, 1,
                               level + 1, al),
                   <<125>>, al)
  ELSE FWrite(str_write_escape(FWrite(json, <<34>>, al),
                               fiobj2cstr(heap, o),
                               al.moved, al.fresh, al.junk).s,
              <<34>>, al)

\* fiobj2json(FIOBJ_INVALID, o, 0): the bytes of the string returned
fiobj2json(heap, o, al) ==
  StrContent(fiobj___json_format_internal__(FIO_STRING_INIT, heap, o, 0, al))

\* ---- FIOBJ: JSON parsing ----
\* fiobj_json_parser_s without the parser it starts with and the target
FParser(heap) ==
  [heap |-> heap, key |-> FIOBJ_INVALID, top |-> FIOBJ_INVALID,
   stack |-> [k \in 0..JSON_MAX_DEPTH |-> FIOBJ_INVALID], so |-> 0,
   reset |-> FALSE]

\* fiobj_array_push on an array that was only ever pushed to
fiobj_array_push(heap, ary, o) ==
  [heap EXCEPT ![ary.ptr].items = Append(@, o)]

\* the couplet that holds a key equal to `key`, 0 when there is none
FCouplet(heap, hash, key) ==
  LET found == {i \in 1..(Len(FItems(heap, hash)) \div 2) :
                  fiobj_is_eq(heap, FItems(heap, hash)[2 * i - 1], key) = 1}
  IN IF found = {} THEN 0 ELSE CHOOSE i \in found : TRUE

\* fiobj_hash_insert2 on a hash nothing was removed from: the value of an
\* equal key is replaced, a new key is added last
fiobj_hash_insert2(heap, hash, key, value) ==
  IF FCouplet(heap, hash, key) # 0
  THEN [heap EXCEPT ![hash.ptr].items[2 * FCouplet(heap, hash, key)] = value]
  ELSE [heap EXCEPT ![hash.ptr].items = @ \o <<key, value>>]

fiobj_json_add2parser(pr, o) ==
  IF pr.top # FIOBJ_INVALID
  THEN IF pr.top.class = FIOBJ_T_HASH
       THEN IF pr.key # FIOBJ_INVALID
            THEN [pr EXCEPT !.heap = fiobj_hash_insert2(pr.heap, pr.top,
                                                        pr.key, o),
                            !.key = FIOBJ_INVALID]
            ELSE [pr EXCEPT !.key = o]
       ELSE IF pr.top.class = FIOBJ_T_ARRAY
       THEN [pr EXCEPT !.heap = fiobj_array_push(pr.heap, pr.top, o)]
       ELSE pr
  ELSE [pr EXCEPT !.top = o]

\* fio_json_on_start_object and fio_json_on_start_array without a target
FStart(pr, class) ==
  With(FNew(pr.heap, FCell(class, FIO_STRING_INIT, <<>>, <<>>)),
       LAMBDA n :
         With(fiobj_json_add2parser([pr EXCEPT !.heap = n.heap], n.o),
              LAMBDA added :
                [added EXCEPT !.stack[added.so] = added.top,
                              !.so = added.so + 1,
                              !.top = n.o]))

\* fio_json_on_end_array, and fio_json_on_end_object after it dropped a
\* dangling key
FEnd(pr) ==
  IF pr.so # 0
  THEN [pr EXCEPT !.top = pr.stack[pr.so - 1], !.so = pr.so - 1]
  ELSE [pr EXCEPT !.top = FIOBJ_INVALID]

\* the callback `call` of the FIOBJ parser; `text` is the memory parsed
FCallback(pr, call, text, al) ==
  CASE call.name = "on_null" -> fiobj_json_add2parser(pr, fiobj_null)
    [] call.name = "on_true" -> fiobj_json_add2parser(pr, fiobj_true)
    [] call.name = "on_false" -> fiobj_json_add2parser(pr, fiobj_false)
    [] call.name = "on_number" ->
         fiobj_json_add2parser(pr, fiobj_num_new(call.arg))
    [] call.name = "on_float" ->
         With(FNew(pr.heap, FCell(FIOBJ_T_FLOAT, FIO_STRING_INIT, <<>>,
                                  call.arg)),
              LAMBDA n : fiobj_json_add2parser([pr EXCEPT !.heap = n.heap],
                                               n.o))
    [] call.name = "on_string" ->
         With(FNew(pr.heap,
                   FCell(FIOBJ_T_STRING,
                         str_write_unescape(FIO_STRING_INIT, text,
                                            JStart + call.at + 1,
                                            Len(call.arg), al.moved,
                                            al.fresh, al.junk).s,
                         <<>>, <<>>)),
              LAMBDA n : fiobj_json_add2parser([pr EXCEPT !.heap = n.heap],
                                               n.o))
    [] call.name = "on_start_object" -> FStart(pr, FIOBJ_T_HASH)
    [] call.name = "on_start_array" -> FStart(pr, FIOBJ_T_ARRAY)
    [] call.name = "on_end_object" ->
         FEnd([pr EXCEPT !.key = FIOBJ_INVALID])
    [] call.name = "on_end_array" -> FEnd(pr)
    [] call.name = "on_error" -> [FParser(pr.heap) EXCEPT !.reset = TRUE]
    [] OTHER -> pr

RECURSIVE FCallbacks(_, _, _, _, _)
FCallbacks(pr, calls, k, text, al) ==
  IF k > Len(calls) THEN pr
  ELSE FCallbacks(FCallback(pr, calls[k], text, al), calls, k + 1, text, al)

\* fiobj_json_parse of the bytes `buf`: the heap, the object returned, the
\* callbacks made and what fio_json_parse returned
fiobj_json_parse(heap, buf, env, al) ==
  With(fio_json_parse(FIO_JSON_INIT, 0, buf, env),
       LAMBDA r :
         With(FCallbacks(FParser(heap), r.calls, 1,
                         JText(buf, env.before, env.past), al),
              LAMBDA pr :
                [heap |-> pr.heap,
                 top |-> IF r.rv = 0 \/ (~pr.reset /\ r.p.depth # 0)
                         THEN FIOBJ_INVALID ELSE pr.top,
                 parsed |-> r]))

\* ---- the soft values and the calls ----
FString(bytes) ==
  FCell(FIOBJ_T_STRING, FWrite(FIO_STRING_INIT, bytes, JAlloc(TRUE, 0)),
        <<>>, <<>>)
FRef(class, addr) == [class |-> class, ptr |-> addr]

\* the objects built before the calls: the strings "a", a"\ with a newline,
\* the byte 1 and a slash, 45 times a and a quote, 50 times a; the arrays
\* [], [1,true,null,"a"] and [[1,true,null,"a"],{..},[]]; the hashes {} and
\* {"a":-12, <the second string>:[1,true,null,"a"]}
FHeap ==
  <<FString(<<97>>),
    FString(<<97, 34, 92, 10, 1, 47>>),
    FString(JRepeat(<<97>>, 45) \o <<34>>),
    FString(JRepeat(<<97>>, 50)),
    FCell(FIOBJ_T_ARRAY, FIO_STRING_INIT, <<>>, <<>>),
    FCell(FIOBJ_T_ARRAY, FIO_STRING_INIT,
          <<fiobj_num_new(1), fiobj_true, fiobj_null,
            FRef(FIOBJ_T_STRING, 1)>>, <<>>),
    FCell(FIOBJ_T_HASH, FIO_STRING_INIT, <<>>, <<>>),
    FCell(FIOBJ_T_HASH, FIO_STRING_INIT,
          <<FRef(FIOBJ_T_STRING, 1), fiobj_num_new(-12),
            FRef(FIOBJ_T_STRING, 2), FRef(FIOBJ_T_ARRAY, 6)>>, <<>>),
    FCell(FIOBJ_T_ARRAY, FIO_STRING_INIT,
          <<FRef(FIOBJ_T_ARRAY, 6), FRef(FIOBJ_T_HASH, 8),
            FRef(FIOBJ_T_ARRAY, 5)>>, <<>>)>>

FValues ==
  {fiobj_null, fiobj_true, fiobj_false}
  \cup {fiobj_num_new(i) : i \in {0, 7, -12}}
  \cup {FRef(FHeap[a].class, a) : a \in 1..Len(FHeap)}

\* a and b hold the same value: the same primitive or number, strings of
\* the same bytes, arrays of the same values in the same order, hashes of
\* the same keys and values in the same order
RECURSIVE FSame(_, _, _)
FSame(heap, a, b) ==
  /\ a.class = b.class
  /\ IF a.class \in {FIOBJ_T_PRIMITIVE, FIOBJ_T_NUMBER, 0} THEN a.ptr = b.ptr
     ELSE IF a.class = FIOBJ_T_STRING THEN str_iseq(heap, a, b) = 1
     ELSE IF a.class = FIOBJ_T_FLOAT THEN heap[a.ptr].f = heap[b.ptr].f
     ELSE /\ Len(FItems(heap, a)) = Len(FItems(heap, b))
          /\ \A k \in 1..Len(FItems(heap, a)) :
               FSame(heap, FItems(heap, a)[k], FItems(heap, b)[k])

\* fiobj_json_parse(fiobj2cstr(fiobj2json(FIOBJ_INVALID, v, 0))) and
\* fiobj_is_eq of v and what it returned
fiobj_round_trip(v, env, moved, junk) ==
  /\ jnops < MaxJsonCalls
  /\ \E text \in {fiobj2json(FHeap, v, JAlloc(moved, junk))} :
       \E r \in {fiobj_json_parse(FHeap, text, env, JAlloc(moved, junk))} :
         jres' = [op |-> "round_trip", input |-> text, env |-> env,
                  calls |-> r.parsed.calls, rv |-> r.parsed.rv,
                  failed |-> r.parsed.failed, last |-> r.parsed.last,
                  value |-> v, top |-> r.top,
                  eq |-> fiobj_is_eq(r.heap, v, r.top),
                  same |-> FSame(r.heap, v, r.top)]
  /\ jnops' = jnops + 1
  /\ UNCHANGED <<jp, jprev>>
  /\ UNCHANGED notjsonvars

FiobjNext ==
  \E v \in FValues, env \in JEnvs, moved \in BOOLEAN, junk \in JunkValues :
    fiobj_round_trip(v, env, moved, junk)

SpecFiobj == InitJson /\ [][FiobjNext]_vars

\* ---- arena acquisition alone (fio_mem___arena_aquire) ----
\* what the critical section under the arena lock does is left out: it is
\* finite, so a thread that holds an arena goes on to release it

notarenavars == <<memvars, refvars, mapvars, aryvars, hmapvars, strvars,
                  jsonvars, listvars>>

\* a thread calls fio_mem___arena_aquire (from fio_mem___block_slice)
fio_mem___arena_aquire(t) ==
  /\ ath[t].pc = "idle"
  /\ ath' = [ath EXCEPT ![t].pc = "last"]
  /\ UNCHANGED <<arenalock, notarenavars>>

\* if (fio_mem___arena) if (!fio_trylock(&fio_mem___arena->lock)) return;
arena_try_last(t) ==
  /\ ath[t].pc = "last"
  /\ LET a == ath[t].arena IN
     IF a # 0
       THEN /\ arenalock' = [arenalock EXCEPT ![a] = fio_trylock(@, t)]
            /\ ath' = [ath EXCEPT ![t] =
                         IF arenalock[a] = 0
                           THEN [@ EXCEPT !.pc = "held"]
                           ELSE [@ EXCEPT !.pc = "scan", !.i = 1]]
       ELSE /\ ath' = [ath EXCEPT ![t] = [@ EXCEPT !.pc = "scan", !.i = 1]]
            /\ UNCHANGED arenalock
  /\ UNCHANGED notarenavars

\* one turn of the loop over the arenas: fio_trylock of arenas[i]
arena_try_next(t) ==
  /\ ath[t].pc = "scan"
  /\ LET i == ath[t].i IN
     /\ arenalock' = [arenalock EXCEPT ![i] = fio_trylock(@, t)]
     /\ ath' = [ath EXCEPT ![t] =
                  IF arenalock[i] = 0
                    THEN [@ EXCEPT !.pc = "held", !.arena = i, !.i = 0]
                    ELSE IF i = NCores
                           THEN [@ EXCEPT !.pc = "sleep", !.i = 0]
                           ELSE [@ EXCEPT !.i = i + 1]]
  /\ UNCHANGED notarenavars

\* nanosleep(&tm, NULL) and the next round of for (;;)
arena_nanosleep(t) ==
  /\ ath[t].pc = "sleep"
  /\ ath' = [ath EXCEPT ![t] = [@ EXCEPT !.pc = "scan", !.i = 1]]
  /\ UNCHANGED <<arenalock, notarenavars>>

\* fio_mem___arena_release: fio_unlock(&fio_mem___arena->lock)
fio_mem___arena_release(t) ==
  /\ ath[t].pc = "held"
  /\ arenalock' = [arenalock EXCEPT ![ath[t].arena] = fio_unlock(@)]
  /\ ath' = [ath EXCEPT ![t].pc = "idle"]
  /\ UNCHANGED notarenavars

\* the steps a thread takes once it has called: the scheduler runs it
ArenaRun(t) ==
  \/ arena_try_last(t)
  \/ arena_try_next(t)
  \/ arena_nanosleep(t)
  \/ fio_mem___arena_release(t)

ArenaNext ==
  \/ \E t \in ArenaThreads : fio_mem___arena_aquire(t)
  \/ \E t \in ArenaThreads : ArenaRun(t)

\* every thread keeps being scheduled, nanosleep returns, and a thread that
\* holds an arena finishes its slice and releases it; nothing makes a
\* thread call the allocator again
SpecArena ==
  Init /\ [][ArenaNext]_vars /\ \A t \in ArenaThreads : WF_vars(ArenaRun(t))

\* ---- the allocator: threads and the teardown ----
MemNext ==
  \/ \E t \in Threads : MemStep(t)
  \/ \E t \in Threads : fio_mem___destroy(t)
  \/ \E t \in Threads : destroy_arena(t)

SpecMem == Init /\ [][MemNext]_vars

\* ---- the allocator across a fork ----
\* in the child the fork may leave behind a lock nobody will release
ForkNext ==
  \/ \E t \in Threads : MemStep(t)
  \/ \E t \in Threads : Fork(t)
  \/ \E t \in Threads : fio_malloc_after_fork(t)

\* the scheduler runs the child's only thread
SpecFork == Init /\ [][ForkNext]_vars
            /\ WF_vars(\E t \in Threads : child = t /\ after_fork /\ MemStep(t))

Next == MemNext

Spec == SpecMem

(***************************************************************************)
(* Slab allocator: what the claims speak of.                               *)
(***************************************************************************)
\* the thread that takes the step: the one whose locals change
Actor(t) == th'[t] # th[t]

\* the program points of fio_mem___block_slice between fio_mem___arena_aquire
\* and fio_mem___arena_release
ArenaSection == {"slice", "rot_lock", "rot_pop", "rot_unlock", "rot_init",
                 "slice_take", "release"}

InArenaSection(t) ==
  \/ th[t].pc \in ArenaSection
  \/ th[t].ret = "slice_take"

\* a slice handed out from block b that is still unfreed, or being returned
SliceOutstanding(b) ==
  \/ \E s \in live : s.b = b
  \/ \E t \in Threads : th[t].pc = "release" /\ th[t].b = b

\* C1: a block goes onto the free list only with a slice reference count of
\* zero, no unfreed slice and not as an arena's current block; a super-block
\* is released to the OS only with a root reference count of zero, after all
\* of its blocks were found on the free list and removed from it.
C1_FreeOnlyAtZero ==
  [][/\ \A b \in Blocks :
          (~OnList(b) /\ OnList(b)') =>
             /\ blk'[b].ref = 0
             /\ ~SliceOutstanding(b)'
             /\ \A a \in Arenas : ablock'[a] # b
     /\ \A t \in Threads :
          (th[t].pc = "bf_remove" /\ Actor(t)) =>
             /\ blk[th[t].b].root_ref = 0
             /\ \A b \in SBBlocks(SBOf(th[t].b)) : OnList(b) /\ ~OnList(b)'
     /\ \A sb \in SuperBlocks :
          (sb \in mapped /\ sb \notin mapped') =>
             /\ blk[SBBase(sb)].root_ref = 0
             /\ \A b \in SBBlocks(sb) :
                  ~OnList(b) /\ blk[b].ref = 0 /\ ~SliceOutstanding(b)
             /\ \E t \in Threads : th[t].pc = "bf_pagefree" /\ Actor(t)
    ]_vars

\* a thread releases a super-block while an allocation made from another
\* super-block is live
C1_Witness ==
  \E t \in Threads :
    /\ th[t].pc = "bf_pagefree"
    /\ th[t].ret = "idle"
    /\ live # {}
    /\ Cardinality(mapped) = 2

\* the free list and the root reference counts change only under the global
\* lock
ListUnderGlobalLock ==
  (avail' # avail \/ \E b \in Blocks : blk'[b].root_ref # blk[b].root_ref)
     => \E t \in Threads : Actor(t) /\ glock = t

\* an arena's block pointer and that block's pos change only under the
\* arena's lock
ArenaUnderArenaLock ==
  \A a \in Arenas :
    (\/ ablock'[a] # ablock[a]
     \/ (ablock[a] # NULL /\ ablock[a] \in Blocks
         /\ blk'[ablock[a]].pos # blk[ablock[a]].pos))
      => \E t \in Threads : Actor(t) /\ alock[a] = t

\* a thread in fio_mem___block_slice holds its arena's lock, no two threads
\* are there on one arena, and a thread outside of it holds no arena lock
ArenaLockHeld ==
  /\ \A t \in Threads : InArenaSection(t) => alock[th[t].arena] = t
  /\ \A t, u \in Threads :
       (t # u /\ InArenaSection(t) /\ InArenaSection(u))
          => th[t].arena # th[u].arena
  /\ \A t \in Threads, a \in Arenas :
       alock[a] = t => (InArenaSection(t) /\ th[t].arena = a)

\* C2 as stated: every change of the free list and of a root reference count
\* is made under the global lock, every access to an arena's block pointer
\* and to that block's pos under the arena's lock, and the arena lock of a
\* small fio_malloc is released before the call returns.
C2_AllUnderLocks ==
  [][ListUnderGlobalLock /\ ArenaUnderArenaLock /\ ArenaLockHeld]_vars

\* C2, amended: as stated for fio_malloc, fio_realloc and fio_free; the
\* teardown fio_mem___destroy takes and clears every arena's block pointer
\* and resets its lock without holding that lock.
C2_UnderLocksButTeardown ==
  [][/\ ListUnderGlobalLock
     /\ (~Tearing => ArenaUnderArenaLock)
     /\ ArenaLockHeld]_vars

\* two threads slice at once, each from its own arena
C2_Witness ==
  \E t, u \in Threads :
    /\ t # u
    /\ th[t].pc = "release" /\ th[u].pc = "rot_pop"
    /\ glock = u
    /\ alock[th[t].arena] = t /\ alock[th[u].arena] = u

\* C9: once every allocation is freed and fio_mem___destroy has run, the
\* live-block counter is zero (and no super-block is left mapped).
C9_NoLeak ==
  (~state /\ live = {}) => (block_count = 0 /\ mapped = {})

\* the teardown after allocations from two super-blocks were made and freed
C9_Witness ==
  /\ ~state
  /\ live = {}
  /\ nalloc = MaxAllocs
  /\ \E t \in Threads : th[t].arena = 0 /\ th[t].pc = "idle"

Outstanding == {t \in Holders : held[t] > 0}

\* C3: after new2, n up_ref calls and n + 1 free2 calls in any interleaving
\* destroy the wrapped value and the metadata exactly once each, in the
\* free2 call that brought the count to zero and never while a reference is
\* outstanding.
C3_DestroyedOnce ==
  /\ was_destroyed <= 1
  /\ meta_was_destroyed <= 1
  /\ \A t \in Holders :
       rpc[t] # "idle" =>
          /\ o_ref = 0
          /\ Outstanding = {}
          /\ \A u \in Holders : u # t => rpc[u] = "idle"
  /\ (o_mem = "allocated" /\ \A t \in Holders : rpc[t] = "idle")
        => Outstanding # {}
  /\ (o_mem = "freed") =>
        /\ was_destroyed = 1 /\ meta_was_destroyed = 1
        /\ Outstanding = {}
  /\ (o_mem = "allocated" /\ Outstanding # {}) =>
        was_destroyed = 0 /\ meta_was_destroyed = 0

\* the object was freed after the last of its references, taken by up_ref
\* and spread over the threads, was released
C3_Witness ==
  /\ o_mem = "freed"
  /\ nup = MaxUpRef
  /\ was_destroyed = 1
  /\ meta_was_destroyed = 1

(***************************************************************************)
(* Ordered hash map / set: what the claims speak of.                       *)
(***************************************************************************)
\* the call the step makes
Called(op) == nops' = nops + 1 /\ res'.op = op

\* lookup reaches node n with the hash and the key stored in n
FoundByLookup(n) ==
  LET f == _find_map_pos(m, m.map[n].obj, m.map[n].hash)
  IN /\ f.rc = "ok"
     /\ f.pos # PosNULL
     /\ f.m.map[f.pos].hash # FIO_MAP_HASH_INVALID
     /\ f.m.map[f.pos].next # NoPos
     /\ FIO_MAP_OBJ_COMPARE(f.m.map[f.pos].obj, m.map[n].obj)

\* the nodes on the ring
RingNodes ==
  LET w == FIO_MAP_EACH(m) IN {w.at[i] : i \in 1..Len(w.at)}

\* the value find returns for key k in the container mm
Lookup(mm, k) == Find(mm, [key |-> k, value |-> 0], HashOf(k)).rv

\* C4: every live entry of the map, i.e. every node on the ring, is found by
\* a lookup with its stored hash and key within the probe budget.
C4_LiveEntriesFound ==
  mstate = "ok" => \A n \in RingNodes : FoundByLookup(n)

\* C5: on the hash map, insert(k, v1) followed by insert(k, v2) leaves the
\* count unchanged by the second call, reports v1 through old, keeps the
\* entry's position in the iteration order, and find(k) then returns v2.
C5_Overwrite ==
  [][(keyed /\ res.op = "insert" /\ Called("insert") /\ res'.key = res.key)
       => /\ mstate' = "ok"
          /\ m'.count = m.count
          /\ res'.old = [key |-> 0, value |-> res.value]
          /\ res'.rv = [key |-> 0, value |-> res'.value]
          /\ LET before == FIO_MAP_EACH(m).seen
                 after == FIO_MAP_EACH(m').seen
             IN /\ Len(after) = Len(before)
                /\ \A i \in 1..Len(before) : after[i].key = before[i].key
          /\ Lookup(m', res'.key) = [key |-> 0, value |-> res'.value]
    ]_vars

\* a stored value was overwritten by a different one, in a table that holds
\* another entry as well
C5_Witness ==
  /\ keyed
  /\ res.op = "insert"
  /\ res.old.value \in Values
  /\ res.old.value # res.value
  /\ m.count = 2
  /\ Lookup(m, res.key).value = res.value

\* C6: find of a key never inserted, or removed, returns the invalid value;
\* remove of such a key returns -1 and leaves count and contents unchanged;
\* remove of a stored key returns 0, reports its value through old and
\* lowers the count by one.
C6_FindRemove ==
  [][/\ (keyed /\ Called("find") /\ ~AbsHas(abs, res'.key))
          => res'.rv = ZeroObj
     /\ (keyed /\ Called("remove") /\ ~AbsHas(abs, res'.key))
          => /\ res'.code = -1
             /\ m'.count = m.count
             /\ FIO_MAP_EACH(m').seen = FIO_MAP_EACH(m).seen
     /\ (keyed /\ Called("remove") /\ AbsHas(abs, res'.key))
          => /\ res'.code = 0
             /\ res'.old = [key |-> 0,
                            value |-> abs[AbsPos(abs, res'.key)].value]
             /\ m'.count = m.count - 1
    ]_vars

\* C7: iteration, by FIO_MAP_EACH and by each, visits exactly the entries
\* inserted and not removed, each once, in the order of their first
\* insertion.
C7_IterationOrder ==
  mstate = "ok" =>
    /\ FIO_MAP_EACH(m).rc = "ok"
    /\ FIO_MAP_EACH(m).seen = abs
    /\ each(m, 0).rc = "ok"
    /\ each(m, 0).seen = abs

\* C8: on the set, when a matching element is stored, insert keeps it and
\* discards the incoming one and overwrite replaces it and reports the
\* previous one through old, the count unchanged by both; when no matching
\* element is stored, both add the element at the tail of the ring and the
\* count grows by one.
C8_SetInsertOverwrite ==
  [][\A op \in {"set_insert", "overwrite"} :
       (~keyed /\ Called(op)) =>
          LET k == res'.key
              incoming == [key |-> k, value |-> res'.value]
              after == FIO_MAP_EACH(m').seen
          IN IF AbsHas(abs, k)
               THEN /\ m'.count = m.count
                    /\ IF op = "set_insert"
                         THEN Lookup(m', k) = abs[AbsPos(abs, k)]
                         ELSE /\ Lookup(m', k) = incoming
                              /\ res'.old = abs[AbsPos(abs, k)]
               ELSE /\ m'.count = m.count + 1
                    /\ Len(after) = Len(FIO_MAP_EACH(m).seen) + 1
                    /\ after[Len(after)] = incoming
    ]_vars

(***************************************************************************)
(* Dynamic array: what the claims speak of.                                *)
(***************************************************************************)
\* the step is a call of `op` on the array
AryCalled(op) == anops' = anops + 1 /\ ares'.op = op

\* the sequence s without its p-th element (p counted from zero)
Without(s, p) ==
  [i \in 1..(Len(s) - 1) |-> IF i <= p THEN s[i] ELSE s[i + 1]]

\* C11: on any array, push(x) followed by pop yields x and restores the
\* count and the contents the array had before, and so does unshift(x)
\* followed by shift.
C11_RoundTrips ==
  [][\A pair \in {<<"push", "pop">>, <<"unshift", "shift">>} :
       (ares.op = pair[1] /\ AryCalled(pair[2]))
          => /\ ares'.rv = 0
             /\ ares'.old = ares.data
             /\ Contents(arr') = ares.before
    ]_vars

\* C12: set(index, v) with index at or past the count makes the count
\* index + 1 and get(index) return v, keeps every element that existed at
\* its index, and makes every index from the old count up to index read as
\* the invalid value.
C12_SetPastEnd ==
  [][(AryCalled("set") /\ ares'.arg >= ary_count(arr))
       => LET index == ares'.arg
              n == ary_count(arr)
          IN /\ astate' = "ok"
             /\ ary_count(arr') = index + 1
             /\ ary_get(atype, arr', index) = ares'.data
             /\ Contents(arr')[index + 1] = ares'.data
             /\ \A i \in 0..(n - 1) :
                  ary_get(atype, arr', i) = Contents(arr)[i + 1]
             /\ \A i \in n..(index - 1) :
                  ary_get(atype, arr', i) = FIO_ARRAY_TYPE_INVALID(atype)
    ]_vars

\* a set past the end of an array that holds elements behind a non-zero
\* start offset, leaving a gap
C12_Witness ==
  /\ ares.op = "set"
  /\ Len(ares.before) > 0
  /\ ares.arg > Len(ares.before)
  /\ arr.start > 0
  /\ ary_count(arr) = ares.arg + 1

\* the position, counted from zero, that index addresses in n elements
\* (negative index counted from the end), -1 when it addresses none
Addressed(index, n) ==
  IF index >= 0 THEN (IF index < n THEN index ELSE -1)
  ELSE (IF n + index >= 0 THEN n + index ELSE -1)

\* C13: set(index, v, &old) on an existing element (index from zero, or
\* negative counted from the end) replaces only that element: old receives
\* the previous value, get(index) returns v, the count and every other
\* element are unchanged.
C13_SetExisting ==
  [][(AryCalled("set") /\ Addressed(ares'.arg, ary_count(arr)) # -1)
       => LET p == Addressed(ares'.arg, ary_count(arr))
          IN /\ ares'.old = Contents(arr)[p + 1]
             /\ ary_get(atype, arr', ares'.arg) = ares'.data
             /\ ary_count(arr') = ary_count(arr)
             /\ Contents(arr') = [Contents(arr) EXCEPT ![p + 1] = ares'.data]
    ]_vars

\* C14: remove(index, &old) with a valid index reports the element through
\* old and removes it, the count drops by one and the other elements keep
\* their values and order; with an index outside the array it returns -1 and
\* leaves the array as it was.  For every element type.
C14_Remove ==
  [][AryCalled("remove")
       => LET p == Addressed(ares'.arg, ary_count(arr))
          IN IF p # -1
               THEN /\ ares'.rv = 0
                    /\ ares'.old = Contents(arr)[p + 1]
                    /\ Contents(arr') = Without(Contents(arr), p)
               ELSE /\ ares'.rv = -1
                    /\ arr' = arr
    ]_vars

\* C15: remove2(v) removes every element equal to v, returns how many it
\* removed, lowers the count by that number and keeps the other elements in
\* their order.
C15_Remove2 ==
  [][AryCalled("remove2")
       => LET kept == SelectSeq(Contents(arr), LAMBDA x : x # ares'.data)
          IN /\ ares'.rv = Len(Contents(arr)) - Len(kept)
             /\ ary_count(arr') = ary_count(arr) - ares'.rv
             /\ Contents(arr') = kept
    ]_vars

\* remove2 took two or more elements out of an array with a non-zero start
\* offset and left at least one
C15_Witness ==
  /\ ares.op = "remove2"
  /\ ares.rv >= 2
  /\ ary_count(arr) >= 1
  /\ arr.start > 0

\* the indexes find(v, start_at) is to scan in c, in scanning order:
\* their set, and the one it is to return
FindRange(c, start_at) ==
  IF start_at >= 0 THEN start_at..(Len(c) - 1)
  ELSE 0..(Len(c) + start_at)

FindExpected(c, v, start_at) ==
  LET hits == {i \in FindRange(c, start_at) : c[i + 1] = v}
  IN IF hits = {} THEN -1
     ELSE IF start_at >= 0
       THEN CHOOSE i \in hits : \A j \in hits : i <= j
       ELSE CHOOSE i \in hits : \A j \in hits : i >= j

\* C16: find(v, start_at) scans forward from start_at when it is not
\* negative and backward from the position counted from the end down to the
\* first element when it is; it returns the index of the first element
\* equal to v it meets, -1 exactly when there is none in the scanned range,
\* and get of a returned index is equal to v.  On any array, a non-zero
\* start offset included.
C16_Find ==
  [][AryCalled("find")
       => /\ ares'.rv = FindExpected(Contents(arr), ares'.data, ares'.arg)
          /\ (ares'.rv # -1 => ary_get(atype, arr, ares'.rv) = ares'.data)
    ]_vars

HPresent == {k \in HKeys : habs[k] # 0}

\* what find is to return for a hash and a key
HExpected(hash, key) == IF hash = HASHOFi(key) THEN habs[key] ELSE ZeroValue

C19_Overwrite ==
  [][(/\ hnops' = hnops + 1
      /\ hres'.op = "insert"
      /\ habs[hres'.key] # 0)
     => /\ hstate' = "ok"
        /\ hres'.rv = 1
        /\ hres'.old = habs[hres'.key]
        /\ hm'.count = hm.count
        /\ hmap_find(hm', hres'.hash, hres'.key).value = hres'.value]_vars

(***************************************************************************)
(* Dynamic string: frozen strings.                                         *)
(***************************************************************************)
StrMutators ==
  {"resize", "reserve", "compact", "write", "write_i", "concat", "replace",
   "printf", "write_b64enc"}

\* the calls among them that return an info
StrReturnsInfo == StrMutators \ {"compact"}

\* a mutator was just called on a frozen string
FrozenCall(op) ==
  /\ FIO_STRING_IS_FROZEN(str)
  /\ snops' = snops + 1
  /\ sres'.op = op

\* C20: a mutator called on a frozen string leaves the string's data
\* pointer, its length and its content as they were, writes nothing into
\* the string's memory, and what it returns is the string's info.
C20_Frozen ==
  [][\A op \in StrMutators :
       FrozenCall(op) =>
         /\ sstate' = "ok"
         /\ str_info(str').data = str_info(str).data
         /\ str_info(str').len = str_info(str).len
         /\ StrContent(str') = StrContent(str)
         /\ str'.mem = str.mem
         /\ op \in StrReturnsInfo => sres'.rv = str_info(str')]_vars

(***************************************************************************)
(* JSON parser.                                                            *)
(***************************************************************************)
JLastCall == jres.calls[Len(jres.calls)]

\* C21: a call of fio_json_parse that stops at a byte the grammar does not
\* allow there (an unrecognized byte and a malformed literal included) has
\* fired on_error, made no callback after it, and returns the number of
\* bytes before that byte.
C21_Errors ==
  (jres.op = "parse" /\ jres.failed) =>
    /\ jres.calls # <<>>
    /\ JLastCall.name = "on_error"
    /\ \A k \in 1..(Len(jres.calls) - 1) : jres.calls[k].name # "on_error"
    /\ jres.rv = JLastCall.at

JEnds == {"on_end_object", "on_end_array"}

\* C22: a closing } or ] that follows a comma, with nothing but whitespace
\* and comments between them, is a syntax error: its on_end_object or
\* on_end_array is never delivered.
C22_TrailingComma ==
  \A k \in 1..Len(jres.calls) :
    jres.calls[k].name \in JEnds => ~jres.calls[k].comma

JStarts == {"on_start_object", "on_start_array"}

\* C23: when on_start_object or on_start_array returns non-zero the call
\* stops at that bracket: no callback other than on_error follows it and
\* nothing after the bracket is consumed.
C23_Abort ==
  \A k \in 1..Len(jres.calls) :
    (jres.calls[k].name \in JStarts /\ jres.calls[k].ret # 0) =>
      /\ \A j \in (k + 1)..Len(jres.calls) : jres.calls[j].name = "on_error"
      /\ jres.rv <= jres.calls[k].at + 1

\* C24: for a soft value v made of null, true, false, integers, strings,
\* arrays and hashes nested less than 28 deep, fiobj_json_parse of the text
\* fiobj2json wrote for v consumes the whole text and returns a value that
\* fiobj_is_eq finds equal to v.
C24_RoundTrip ==
  jres.op = "round_trip" => (jres.rv = Len(jres.input) /\ jres.eq = 1)

(***************************************************************************)
(* Arena acquisition: what the claim speaks of.                            *)
(***************************************************************************)
\* the arena locks thread t has set and not released
ArenaHeld(t) == {a \in Arenas : arenalock[a] = t}

\* a thread that has returned from fio_mem___arena_aquire holds the lock of
\* its fio_mem___arena and no other; any other thread holds none
ArenaOneLock ==
  \A t \in ArenaThreads :
    ArenaHeld(t) = IF ath[t].pc = "held" THEN {ath[t].arena} ELSE {}

\* the order of the attempts: the arena used last, then arena 1, 2, ... and
\* the sleep after the last one; the thread returns with the first arena
\* whose lock it found free
ArenaOrder ==
  \A t \in ArenaThreads :
    LET a == ath[t].arena
        i == ath[t].i IN
    /\ (ath[t].pc = "last" /\ ath'[t] # ath[t]) =>
         IF a # 0 /\ arenalock[a] = 0
           THEN ath'[t].pc = "held" /\ ath'[t].arena = a
           ELSE ath'[t].pc = "scan" /\ ath'[t].i = 1
    /\ (ath[t].pc = "scan" /\ ath'[t] # ath[t]) =>
         IF arenalock[i] = 0
           THEN ath'[t].pc = "held" /\ ath'[t].arena = i
           ELSE IF i = NCores
                  THEN ath'[t].pc = "sleep"
                  ELSE ath'[t].pc = "scan" /\ ath'[t].i = i + 1
    /\ (ath[t].pc = "sleep" /\ ath'[t] # ath[t]) =>
         (ath'[t].pc = "scan" /\ ath'[t].i = 1)

\* thread t is inside fio_mem___arena_aquire
ArenaWaiting(t) == ath[t].pc \in {"last", "scan", "sleep"}

\* C25 as stated: the attempts are made in order, the thread returns holding
\* exactly one arena lock, and, every holder releasing its lock, a thread
\* that entered fio_mem___arena_aquire eventually returns from it.
C25_Returns ==
  /\ []ArenaOneLock
  /\ [][ArenaOrder]_vars
  /\ \A t \in ArenaThreads : ArenaWaiting(t) ~> (ath[t].pc = "held")

\* C25: the attempts are made in order (last-used arena, then every arena
\* in turn, then sleep and retry), the thread returns holding exactly one
\* arena lock, and it eventually returns provided the other threads
\* eventually stop entering fio_mem___arena_aquire: a thread keeps waiting
\* for ever only if other threads keep entering for ever.
C25_Arena ==
  /\ []ArenaOneLock
  /\ [][ArenaOrder]_vars
  /\ \A t \in ArenaThreads :
       \/ []<>(~ArenaWaiting(t))
       \/ []<>(\E u \in ArenaThreads \ {t} : ath[u].pc = "last")

\* a thread sleeps after finding every arena locked while another thread
\* holds the arena it got from the scan
C25_Witness ==
  \E t, u \in ArenaThreads :
    /\ ath[t].pc = "sleep"
    /\ ath[u].pc = "held" /\ ath[u].arena = NCores

(***************************************************************************)
(* Slab allocator: the order of the locks.                                 *)
(***************************************************************************)
\* the arena locks thread t has set and not released
ArenaLocksOf(t) == {a \in Arenas : alock[a] = t}

\* thread t is in fio_mem___arena_aquire, about to fio_trylock an arena
WantsArena(t) == th[t].pc = "acq_scan"

\* thread t is in fio_lock(&fio_mem___state->lock)
WantsGlobal(t) == th[t].pc \in {"rot_lock", "bf_lock"}

\* thread t is inside a call of the allocator
InCall(t) == Alive(t) /\ th[t].pc # "idle"

\* the call of thread t cannot go on: the lock it spins on is taken
BlockedOnLock(t) ==
  \/ WantsGlobal(t) /\ glock # 0
  \/ WantsArena(t) /\ \A a \in Arenas : alock[a] # 0

\* C26: a thread that is about to take an arena lock (at the call, or inside
\* the scan) does not hold the global lock, no thread holds two arena locks,
\* a thread that requests the global lock does not hold it, and whenever a
\* call is running at least one running call is not blocked on a lock.
C26_NoDeadlock ==
  /\ \A t \in Threads : (WantsArena(t) \/ th[t].pc = "idle") => glock # t
  /\ \A t \in Threads : Cardinality(ArenaLocksOf(t)) <= 1
  /\ \A t \in Threads : WantsGlobal(t) => glock # t
  /\ (\E t \in Threads : InCall(t))
        => \E t \in Threads : InCall(t) /\ ~BlockedOnLock(t)

\* a thread that holds its arena waits for the global lock, which the other
\* thread took while holding the other arena
C26_Witness ==
  \E t, u \in Threads :
    /\ th[t].pc = "rot_lock" /\ ArenaLocksOf(t) # {}
    /\ glock = u /\ ArenaLocksOf(u) # {}
    /\ BlockedOnLock(t)

(***************************************************************************)
(* Slab allocator: the slices.                                             *)
(***************************************************************************)
\* the 16 byte units of its block a slice covers, the header being unit 0
SliceUnits(s) ==
  (FIO_MEMORY_BLOCK_START_POS + s.pos) ..
    (FIO_MEMORY_BLOCK_START_POS + s.pos + s.len - 1)

SliceOverlap(s1, s2) ==
  s1.b = s2.b /\ SliceUnits(s1) \cap SliceUnits(s2) # {}

\* the slice thread t has taken and is about to return
SliceTaken(t) == [b |-> th[t].b, pos |-> th[t].i, len |-> th[t].units]

\* the slice lies in a mapped block, after the header and before the end
SliceInside(s) ==
  /\ s.b \in Blocks /\ SBOf(s.b) \in mapped
  /\ s.len > 0
  /\ \A x \in SliceUnits(s) :
       FIO_MEMORY_BLOCK_START_POS <= x /\ x < FIO_MEMORY_BLOCK_SLICES

\* a slice of block b is in use: returned and not freed, being returned, or
\* the old allocation of a fio_realloc that has not freed it yet
SliceInUse(b) ==
  \/ SliceOutstanding(b)
  \/ \E t \in Threads : th[t].old = b
  \/ \E t \in Threads : th[t].pc = "bf_sub" /\ th[t].ret = "idle" /\ th[t].b = b

SlicesApart ==
  /\ \A s1, s2 \in live : s1 # s2 => ~SliceOverlap(s1, s2)
  /\ \A s \in live : SliceInside(s)
  /\ \A t \in Threads :
       th[t].pc = "release" =>
          /\ SliceInside(SliceTaken(t))
          /\ \A s \in live : ~SliceOverlap(SliceTaken(t), s)
          /\ \A u \in Threads \ {t} :
               th[u].pc = "release" => ~SliceOverlap(SliceTaken(t), SliceTaken(u))

PosResetWhenUnused ==
  \A b \in Blocks :
    (blk[b].pos # 0 /\ blk'[b].pos = 0) => (~SliceInUse(b) /\ ~SliceInUse(b)')

\* C27: no two small allocations that were returned (or are being returned)
\* and not yet freed overlap, each lies inside its mapped block after the
\* block header, and a block's pos goes back to zero only when no slice of
\* the block is in use.
C27_Disjoint == []SlicesApart /\ [][PosResetWhenUnused]_vars

\* two allocations live side by side in one block while a third, taken from
\* another block after a rotation, is being returned
C27_Witness ==
  \E s1, s2 \in live, t \in Threads :
    /\ s1.b = s2.b /\ s1.pos # s2.pos
    /\ th[t].pc = "release" /\ th[t].b # s1.b

(***************************************************************************)
(* Ordered hash map / set: the ring.                                       *)
(***************************************************************************)
\* the slots that hold a live entry: neither empty nor a tombstone
LiveSlots ==
  {i \in DOMAIN m.map : /\ m.map[i].hash # FIO_MAP_HASH_INVALID
                        /\ m.map[i].next # NoPos}

\* the nodes reached by following next from head, in order
RingWalk == FIO_MAP_EACH(m)

\* following next from head comes back to head, and visits exactly the live
\* slots, each once
RingIsLive ==
  /\ RingWalk.rc = "ok"
  /\ RingNodes = LiveSlots
  /\ Len(RingWalk.at) = Cardinality(LiveSlots)

\* prev and next of the live entries agree
RingLinked ==
  \A i \in LiveSlots :
    /\ m.map[i].next \in LiveSlots /\ m.map[m.map[i].next].prev = i
    /\ m.map[i].prev \in LiveSlots /\ m.map[m.map[i].prev].next = i

RingCounted == Len(RingWalk.at) = m.count

RingHead == (m.head = NoPos) <=> (m.count = 0)

\* the calls the claim speaks of
RingCalls == {"insert", "set_insert", "overwrite", "remove", "pop", "rehash"}

\* C28 as stated: after insert, overwrite, remove, pop or rehash the nodes
\* reached from head by next are exactly the live slots, each once, prev and
\* next agree, their number is count, and head is the invalid index exactly
\* when count is zero.
C28_RingHeadInvalid ==
  res.op \in RingCalls =>
    (RingIsLive /\ RingLinked /\ RingCounted /\ RingHead)

\* C28: in every state the calls leave, the nodes reached from head by next
\* are exactly the live slots, each once, prev and next agree, and their
\* number is count; head is the invalid index exactly when count is zero
\* once the container has a table (FIO_MAP_INIT, and so destroy, leave head
\* at 0 with no table and a count of zero).
C28_Ring ==
  /\ RingIsLive /\ RingLinked /\ RingCounted
  /\ m.has_map => RingHead

\* a ring of two entries around a tombstone, left by a remove
C28_Witness ==
  /\ res.op = "remove" /\ res.code = 0
  /\ Cardinality(LiveSlots) >= 2
  /\ \E i \in DOMAIN m.map :
       m.map[i].hash # FIO_MAP_HASH_INVALID /\ m.map[i].next = NoPos

(***************************************************************************)
(* Ordered hash map / set: the length of a probe pass.                     *)
(***************************************************************************)
\* min(mask, FIO_MAP_MAX_SEEK) for the table as it is
ProbeBudget ==
  LET mask == Pow2(m.used_bits) - 1
  IN IF mask > FIO_MAP_MAX_SEEK THEN FIO_MAP_MAX_SEEK ELSE mask

\* the number of slots a probe pass for key k looks at in the table as it is
ProbesFor(k) == SeekPos(m, [key |-> k, value |-> 0], HashOf(k)).tried

\* C29 as stated: a probe pass for any key stops after min(mask, 96)
\* attempts, and every call returns.
C29_ProbeBound ==
  /\ m.has_map => \A k \in Keys : ProbesFor(k) <= ProbeBudget
  /\ mstate # "hang"

(***************************************************************************)
(* Ordered hash map / set: full collisions.                                *)
(***************************************************************************)
\* a probe pass for element k, of the one hash, in the table as it is
AttackProbe(k) == SeekPos(m, [key |-> k, value |-> k], AttackHash)

\* C30 as stated: a probe pass that meets 11 or more full collisions with
\* elements that do not match sets under_attack, so that of elements that
\* all share one hash no more than 12 are ever counted (the 12th is the one
\* whose pass meets 11 full collisions).
C30_AttackAt11 ==
  /\ \A k \in AttackKeys :
       AttackProbe(k).full >= 11 => AttackProbe(k).m.under_attack = 1
  /\ m.count <= 12

\* ---- C31: the collision flag of the ordered map ----

\* two live entries of one full hash whose keys do not compare equal
FullCollisionStored ==
  \E i, j \in LiveSlots :
    /\ i # j
    /\ m.map[i].hash = m.map[j].hash
    /\ ~FIO_MAP_OBJ_COMPARE(m.map[i].obj, m.map[j].obj)

\* the last call was a lookup whose probe pass met an entry of the key's full
\* hash that did not compare equal
FindCollided ==
  /\ res.op = "find"
  /\ SeekPos(m, [key |-> res.key, value |-> 0], HashOf(res.key)).full > 0

CollisionFlagStored == FullCollisionStored => m.has_collisions # 0

CollisionFlagFound == FindCollided => m.has_collisions # 0

\* a rehash that follows such a lookup leaves the flag set
CollisionFlagKept ==
  (FindCollided /\ res'.op = "rehash") => m'.has_collisions # 0

\* C31: in every reachable state, an entry whose full hash equals that of
\* another live entry, or of a key that was probed against it, either compares
\* equal to it or the map's has_collisions flag is set, also after a rehash or
\* a resize.
C31_CollisionFlag ==
  /\ [](CollisionFlagStored /\ CollisionFlagFound)
  /\ [][CollisionFlagKept]_vars

\* ---- C32: the load factor of the ordered map ----

InsertCalls == {"insert", "set_insert", "overwrite"}

\* the last call was an insert that returned
InsertCompleted == res.op \in InsertCalls /\ mstate = "ok"

\* live entries fill at most half of the probe table
HalfLoad == m.count * 2 <= Pow2(m.used_bits)

LoadAfterInsert == InsertCompleted => HalfLoad

\* a removal that leaves fewer live entries than an eighth of a table of 256
\* slots or more halves the table
ShrinkWhenSparse ==
  (/\ res'.op = "remove"
   /\ res'.code = 0
   /\ mstate' = "ok"
   /\ m.used_bits >= 8
   /\ (m.count - 1) * 8 < Pow2(m.used_bits)) => m'.used_bits = m.used_bits - 1

\* a removal from a table of less than 256 slots leaves its size alone
NoShrinkWhenSmall ==
  (res'.op = "remove" /\ m.used_bits < 8) => m'.used_bits = m.used_bits

\* C32: after every completed insert the live entries fill at most half of the
\* 2^used_bits slots; a removal that leaves the live density below 12.5% halves
\* a table of used_bits >= 8; and a table of used_bits < 8 is never halved.
C32_LoadFactor ==
  /\ [](LoadAfterInsert)
  /\ [][ShrinkWhenSparse /\ NoShrinkWhenSmall]_vars

\* the part of C32 that the bounds reach and that holds
NeverShrunkWhenSmall == [][NoShrinkWhenSmall]_vars

(***************************************************************************)
(* The embedded linked list (FIO_LIST_NAME), as the test instantiates it:  *)
(* ls____test_s nodes from calloc on one FIO_LIST_HEAD.                    *)
(***************************************************************************)

notlistvars == <<memvars, refvars, mapvars, aryvars, hmapvars, strvars,
                 jsonvars, arenavars>>

LAddrs == {LHead} \cup ListNodes

\* the memory at address a may be read and written: the head, or a node
\* that was allocated and not freed
LValid(l, a) == a = LHead \/ (a \in ListNodes /\ l.mem[a] = "live")

\* p->next = v and p->prev = v; a NULL or freed p ends the run
SetLNext(l, p, v) ==
  IF l.st # "ok" THEN l
  ELSE IF ~LValid(l, p) THEN [l EXCEPT !.st = "crash"]
  ELSE [l EXCEPT !.next[p] = v]

SetLPrev(l, p, v) ==
  IF l.st # "ok" THEN l
  ELSE IF ~LValid(l, p) THEN [l EXCEPT !.st = "crash"]
  ELSE [l EXCEPT !.prev[p] = v]

\* remove(node) without its last assignment
ls_remove_keeps_links(l, n) ==
  IF l.next[n] = n THEN [l |-> l, rv |-> LNull]
  ELSE With(SetLNext(l, l.prev[n], l.next[n]), LAMBDA l1 :
         With(SetLPrev(l1, l1.next[n], l1.prev[n]), LAMBDA l2 :
           [l |-> l2, rv |-> n]))

\* remove(node): NULL for a node linked to itself (the head of an empty list
\* among them), else the node is unlinked and linked to itself
ls_remove(l, n) ==
  IF l.next[n] = n THEN [l |-> l, rv |-> LNull]
  ELSE With(SetLNext(l, l.prev[n], l.next[n]), LAMBDA l1 :
         With(SetLPrev(l1, l1.next[n], l1.prev[n]), LAMBDA l2 :
           [l |-> SetLPrev(SetLNext(l2, n, n), n, n), rv |-> n]))

\* push(head, node): node goes in before head
ls_push(l, h, n) ==
  With(SetLPrev(l, n, l.prev[h]), LAMBDA l1 :
    With(SetLNext(l1, n, h), LAMBDA l2 :
      With(SetLNext(l2, l2.prev[h], n), LAMBDA l3 :
        SetLPrev(l3, h, n))))

\* FIO_MEM_CALLOC(sizeof(*node), 1) where the node is not one the caller
\* holds: zeroed memory
ls_calloc(l, n) ==
  IF l.mem[n] = "live" THEN l
  ELSE [l EXCEPT !.mem[n] = "live", !.next[n] = LNull, !.prev[n] = LNull]

\* the nodes from a->next on up to the head, at most k of them
RECURSIVE LWalk(_, _, _)
LWalk(l, a, k) ==
  IF k = 0 \/ ~LValid(l, a) \/ l.next[a] = LHead \/ l.next[a] \notin LAddrs
    THEN <<>>
    ELSE <<l.next[a]>> \o LWalk(l, l.next[a], k - 1)

\* the list as a walk from the head finds it
LList(l) == LWalk(l, LHead, NListNodes + 1)

LSeqSet(q) == {q[i] : i \in 1 .. Len(q)}

LWithout(q, n) == SelectSeq(q, LAMBDA x : x # n)

ListCallable == lmem.st = "ok" /\ lnops < MaxListOps /\ ~leach.on

\* a node the caller may hand to push: newly allocated, or removed earlier
Pushable(n) == n \notin LSeqSet(labs)

ListCall(l, q, op, n, rv) ==
  /\ lmem' = l
  /\ labs' = q
  /\ lres' = [op |-> op, node |-> n, rv |-> rv]
  /\ lnops' = lnops + 1
  /\ UNCHANGED <<leach, notlistvars>>

\* push(&ls, node)
fio_list_push(n) ==
  /\ ListCallable /\ Pushable(n)
  /\ ListCall(ls_push(ls_calloc(lmem, n), LHead, n), Append(labs, n),
              "push", n, n)

\* unshift(&ls, node) is push(head->next, node)
fio_list_unshift(n) ==
  /\ ListCallable /\ Pushable(n)
  /\ \E l0 \in {ls_calloc(lmem, n)} :
       ListCall(ls_push(l0, l0.next[LHead], n), <<n>> \o labs,
                "unshift", n, n)

\* pop(&ls) is remove of head->prev
fio_list_pop ==
  /\ ListCallable
  /\ \E r \in {ls_remove(lmem, lmem.prev[LHead])} :
       ListCall(r.l, IF labs = <<>> THEN labs
                       ELSE SubSeq(labs, 1, Len(labs) - 1),
                "pop", lmem.prev[LHead], r.rv)

\* shift(&ls) is remove of head->next
fio_list_shift ==
  /\ ListCallable
  /\ \E r \in {ls_remove(lmem, lmem.next[LHead])} :
       ListCall(r.l, IF labs = <<>> THEN labs ELSE Tail(labs),
                "shift", lmem.next[LHead], r.rv)

\* remove(node) of a node that is in the list or was removed from it
fio_list_remove(n) ==
  /\ ListCallable
  /\ lmem.mem[n] = "live"
  /\ \E r \in {ls_remove(lmem, n)} :
       ListCall(r.l, LWithout(labs, n), "remove", n, r.rv)

\* FIO_MEM_FREE(node, sizeof(*node)) of a node taken out of the list
fio_list_free(n) ==
  /\ ListCallable
  /\ lmem.mem[n] = "live" /\ n \notin LSeqSet(labs)
  /\ ListCall([lmem EXCEPT !.mem[n] = "freed"], labs, "free", n, LNull)

\* what a read of a->next gives: anything when a was freed
ReadLNext(l, a) == IF LValid(l, a) THEN {l.next[a]} ELSE LAddrs \cup {LNull}

\* the loop's step without the saved pointer: pos = pos->next
EachStepFromPos(l, e) ==
  {[pos |-> v, nxt |-> e.nxt] : v \in ReadLNext(l, e.pos)}

\* the loop's step: pos = next____p_ls, next____p_ls = next____p_ls->next
EachStep(l, e) ==
  {[pos |-> e.nxt, nxt |-> v] : v \in ReadLNext(l, e.nxt)}

\* FIO_LIST_EACH(ls____test_s, node, &ls, pos): the initialisation
fio_list_EACH_begin ==
  /\ ListCallable
  /\ \E v \in ReadLNext(lmem, lmem.next[LHead]) :
       leach' = [on |-> TRUE, pos |-> lmem.next[LHead], nxt |-> v,
                 entry |-> labs, seen |-> <<>>, removed |-> {}]
  /\ lres' = [op |-> "each", node |-> LNull, rv |-> LNull]
  /\ lnops' = lnops + 1
  /\ UNCHANGED <<lmem, labs, notlistvars>>

\* one round of the loop: the body, which keeps pos, removes it, or removes
\* and frees it, and then the step
fio_list_EACH_body(what) ==
  /\ leach.on /\ lmem.st = "ok"
  /\ leach.pos # LHead
  /\ Len(leach.seen) <= NListNodes
  /\ \E r \in {IF what = "keep" THEN [l |-> lmem, rv |-> LNull]
                 ELSE IF ~LValid(lmem, leach.pos)
                   THEN [l |-> [lmem EXCEPT !.st = "crash"], rv |-> LNull]
                 ELSE ls_remove(lmem, leach.pos)} :
     \E l1 \in {IF what = "free" /\ r.l.st = "ok"
                  THEN [r.l EXCEPT !.mem[leach.pos] = "freed"] ELSE r.l} :
     \E s \in EachStep(l1, leach) :
       /\ lmem' = l1
       /\ labs' = IF what = "keep" THEN labs ELSE LWithout(labs, leach.pos)
       /\ leach' = [leach EXCEPT !.pos = s.pos, !.nxt = s.nxt,
                                 !.seen = Append(@, leach.pos),
                                 !.removed = IF what = "keep" THEN @
                                               ELSE @ \cup {leach.pos}]
  /\ UNCHANGED <<lres, lnops, notlistvars>>

\* the loop's test fails: pos is the head
fio_list_EACH_end ==
  /\ leach.on /\ lmem.st = "ok"
  /\ leach.pos = LHead
  /\ leach' = [leach EXCEPT !.on = FALSE]
  /\ lres' = [op |-> "each_end", node |-> LNull, rv |-> LNull]
  /\ UNCHANGED <<lmem, labs, lnops, notlistvars>>

ListNext ==
  \/ \E n \in ListNodes : fio_list_push(n)
  \/ \E n \in ListNodes : fio_list_unshift(n)
  \/ fio_list_pop
  \/ fio_list_shift
  \/ \E n \in ListNodes : fio_list_remove(n)
  \/ \E n \in ListNodes : fio_list_free(n)
  \/ fio_list_EACH_begin
  \/ \E what \in {"keep", "remove", "free"} : fio_list_EACH_body(what)
  \/ fio_list_EACH_end

SpecList == Init /\ [][ListNext]_vars

\* ---- C33: the links of the embedded list ----

\* n->prev->next == n and n->next->prev == n
LinkedBothWays(n) ==
  /\ lmem.prev[n] \in LAddrs /\ LValid(lmem, lmem.prev[n])
  /\ lmem.next[n] \in LAddrs /\ LValid(lmem, lmem.next[n])
  /\ lmem.next[lmem.prev[n]] = n
  /\ lmem.prev[lmem.next[n]] = n

LinkInvariant ==
  \A n \in {LHead} \cup LSeqSet(LList(lmem)) : LinkedBothWays(n)

\* the walk from the head finds the nodes the caller has in the list, in order
ListAsCalled == lmem.st = "ok" /\ LList(lmem) = labs

\* a node taken out of the list and not freed points at itself
RemovedSelfLinked ==
  \A n \in ListNodes :
    (lmem.mem[n] = "live" /\ n \notin LSeqSet(labs)) =>
      /\ lmem.next[n] = n /\ lmem.prev[n] = n
      /\ n \notin LSeqSet(LList(lmem))

\* pop and shift of an empty list return NULL, of another list the node
EmptyGivesNull ==
  lres.op \in {"pop", "shift"} =>
    (lres.rv = LNull <=> lres.node = LHead)

\* C33: after any sequence of push, unshift, pop, shift and remove (pop and
\* shift of an empty list and remove of the only node among them) the head
\* and every linked node n satisfy n.prev.next == n and n.next.prev == n, and
\* a removed node is linked to itself and not reachable from the head.
C33_Links ==
  LinkInvariant /\ ListAsCalled /\ RemovedSelfLinked /\ EmptyGivesNull

\* the only node of the list was removed, in a run that freed a node before
C33_Witness ==
  /\ lres.op = "remove" /\ lres.rv = lres.node
  /\ labs = <<>>
  /\ lnops >= 3
  /\ \E n \in ListNodes : lmem.mem[n] = "freed"

\* ---- C34: FIO_LIST_EACH with a body that removes ----

\* the body has run for the first nodes of the list at loop entry, in order
EachInOrder ==
  /\ Len(leach.seen) <= Len(leach.entry)
  /\ \A i \in 1 .. Len(leach.seen) : leach.seen[i] = leach.entry[i]

\* at the loop's test pos is the head or the next node of the list at entry
EachPosNext ==
  leach.on =>
    /\ lmem.st = "ok"
    /\ leach.pos = IF Len(leach.seen) < Len(leach.entry)
                     THEN leach.entry[Len(leach.seen) + 1] ELSE LHead
    /\ LValid(lmem, leach.pos)

\* the loop ended: every node was visited, and the list is empty when every
\* node was removed
EachComplete ==
  (lres.op = "each_end" /\ ~leach.on) =>
    /\ leach.seen = leach.entry
    /\ (leach.removed = LSeqSet(leach.entry) =>
          labs = <<>> /\ LList(lmem) = <<>>)

\* C34: a FIO_LIST_EACH loop whose body removes (and may free) the current
\* node visits every node that was in the list at loop entry exactly once, in
\* list order, and ends with the list empty when every visited node was
\* removed.
C34_EachRemoving == EachInOrder /\ EachPosNext /\ EachComplete

\* a loop over three nodes ended, every node removed and freed by the body
C34_Witness ==
  /\ lres.op = "each_end" /\ ~leach.on
  /\ Len(leach.entry) = NListNodes
  /\ leach.removed = ListNodes
  /\ \A n \in ListNodes : lmem.mem[n] = "freed"

\* ---- C35: the bounds of the dynamic array ----

\* 0 <= start <= end <= capa
AryBounds == 0 <= arr.start /\ arr.start <= arr.end /\ arr.end <= arr.capa

\* no element was written at or past ary->ary + capa
AryWritesInside == Len(arr.ary) <= arr.capa

\* C35: after any sequence of push, pop, unshift, shift, set, remove, remove2
\* and compact the array satisfies 0 <= start <= end <= capa, and every
\* element write lands at a buffer index below capa.
C35_AryBounds == AryBounds /\ AryWritesInside

\* ---- C36: the string moving out of and into its container ----

SmallToLarge == FIO_STRING_IS_SMALL(str) /\ ~FIO_STRING_IS_SMALL(str')

LargeToSmall == ~FIO_STRING_IS_SMALL(str) /\ FIO_STRING_IS_SMALL(str')

\* the call that moved the string out asked for more than the container
\* holds: reserve for the capacity, the other calls for the length
GrowRequired ==
  IF sres'.op = "reserve" THEN str'.capa > FIO_STRING_SMALL_CAPA
  ELSE str_len(str') > FIO_STRING_SMALL_CAPA

\* the content is as it was; for a call that appends, the content after the
\* call starts with it
ContentKept ==
  LET old == StrContent(str)
      new == StrContent(str')
  IN IF sres'.op \in {"reserve", "compact"} THEN new = old
     ELSE sres'.op # "replace" =>
            /\ Len(old) <= Len(new)
            /\ \A k \in 1 .. Len(old) : new[k] = old[k]

StrTransition ==
  /\ SmallToLarge => GrowRequired
  /\ LargeToSmall => (sres'.op = "compact" /\ str.len <= FIO_STRING_SMALL_CAPA)
  /\ (SmallToLarge \/ LargeToSmall) => ContentKept

JDepthCap == 31

JOpenings == {<<91>>, <<123>>}

\* a call is made with one opening bracket where a value may stand
JOpeningCall ==
  /\ jres'.op = "parse"
  /\ jres'.input \in JOpenings
  /\ (jp.depth = 0 \/ BitAnd(jp.expect, 2) # 0)

\* the call delivered on_error last, consumed nothing and left the depth
JOpeningRejected ==
  /\ jres'.failed
  /\ jres'.rv = 0
  /\ jres'.calls # <<>>
  /\ jres'.calls[Len(jres'.calls)].name = "on_error"
  /\ jp'.depth = jp.depth

\* the call took the bracket: no on_error, the depth is one more
JOpeningTaken ==
  /\ \A i \in 1 .. Len(jres'.calls) : jres'.calls[i].name # "on_error"
  /\ jres'.rv = 1
  /\ jp'.depth = jp.depth + 1

\* an opening bracket is rejected when the depth is cap, taken when it is
\* below
JOpeningStep(cap) ==
  JOpeningCall =>
    IF jp.depth >= cap THEN JOpeningRejected ELSE JOpeningTaken

JOpen(p) == [i \in 1 .. p.depth |-> p.nesting[i]]

\* the open containers after the callbacks cbs, delivered with the containers
\* of stack open; ok is FALSE when an end callback does not close the
\* innermost open container or on_json comes with a container open
RECURSIVE JNest(_, _, _)
JNest(cbs, stack, ok) ==
  IF cbs = <<>> THEN [stack |-> stack, ok |-> ok]
  ELSE LET cb == Head(cbs).name
           closes(type) == stack # <<>> /\ Head(stack) = type
       IN IF cb = "on_start_object"
            THEN JNest(Tail(cbs), <<0>> \o stack, ok)
          ELSE IF cb = "on_start_array"
            THEN JNest(Tail(cbs), <<1>> \o stack, ok)
          ELSE IF cb = "on_end_object"
            THEN JNest(Tail(cbs), IF stack = <<>> THEN stack ELSE Tail(stack),
                       ok /\ closes(0))
          ELSE IF cb = "on_end_array"
            THEN JNest(Tail(cbs), IF stack = <<>> THEN stack ELSE Tail(stack),
                       ok /\ closes(1))
          ELSE IF cb = "on_json"
            THEN JNest(Tail(cbs), stack, ok /\ stack = <<>>)
          ELSE JNest(Tail(cbs), stack, ok)

\* a call delivers well nested callbacks, and the depth and the bitmap it
\* leaves stand for the containers announced and not closed
JNestedCall ==
  jres'.op = "parse" =>
    LET after == JNest(jres'.calls, JOpen(jp), TRUE)
    IN /\ after.ok
       /\ JOpen(jp') = after.stack

\* C38: the start and end callbacks delivered are well nested (every
\* on_end_object or on_end_array closes the innermost open container, which
\* on_start_object or on_start_array announced); depth is the number of
\* containers announced and not closed; the low bit of the nesting bitmap is
\* the type of the innermost open container; on_json comes only at depth 0.
C38_Nesting == [][JNestedCall]_vars

\* the same for every call but those that fail at the depth cap
NestedBelowCap ==
  [][(jres'.failed /\ jp'.depth = JSON_MAX_DEPTH) \/ JNestedCall]_vars

\* ---- C39: the bounds of the storage of the alternative hash map ----

\* count + offset, the index of the next entry, stays inside data[]
HCountInside ==
  (hm.has_data /\ hstate = "ok") => hm.count + hm.offset <= Pow2(hm.bits)

\* no call read or wrote data[] at an index of 2^bits or more
HDataInside == hstate \notin {"crash", "corrupt"}

\* a slot of the map in use, with a position that is not the invalid one,
\* stands for an entry of data[] whose hash is not zero
HSlotsLive ==
  (hm.has_map /\ hstate = "ok") =>
    \A p \in 1 .. Len(hm.map) :
      (hm.map[p].hash # 0 /\ hm.map[p].pos # FIO_HMAP_INVALID_POS) =>
        /\ hm.map[p].pos < Len(hm.data)
        /\ hm.data[hm.map[p].pos + 1].hash # 0

\* C39: after any sequence of insert (of new and of present keys), remove and
\* find, count + offset is at most 2^bits, every read or write of data[] uses
\* an index below 2^bits, and every map slot with a valid position refers to
\* a data entry whose hash is not zero.
C39_StorageBounds == HCountInside /\ HDataInside /\ HSlotsLive

(***************************************************************************)
(* The accounting of blocks and super-blocks.                              *)
(***************************************************************************)
\* the blocks of super-block s that are not on the free list
OffList(s) == {b \in SBBlocks(s) : ~OnList(b)}

\* the slices of block b handed out and not yet given back to it: returned
\* to the program, about to be returned, or on their way into
\* fio_mem___block_free (of fio_free, or of fio_realloc2 for the old memory)
SlicesOf(b) ==
  Cardinality({s \in live : s.b = b})
  + Cardinality({t \in Threads : th[t].pc = "release" /\ th[t].b = b})
  + Cardinality({t \in Threads :
                   th[t].pc = "bf_sub" /\ th[t].ret = "idle" /\ th[t].b = b})
  + Cardinality({t \in Threads : th[t].old = b})

\* root_ref of super-block s counts its blocks that are off the free list
RootRefCounts(s) == blk[SBBase(s)].root_ref = Cardinality(OffList(s))

\* a block on the free list has no slice out and is no arena's block
FreeListIdle ==
  \A b \in Blocks :
    OnList(b) => (blk[b].ref = 0 /\ \A a \in Arenas : ablock[a] # b)

\* ref of arena a's block is one more than its slices out
ArenaBlockRef(a) == blk[ablock[a]].ref = 1 + SlicesOf(ablock[a])

\* fio_mem___block_free has unlocked and is about to FIO_MEM_PAGE_FREE
\* super-block s
BeingReleased(s) ==
  \E t \in Threads : th[t].pc = "bf_pagefree" /\ SBOf(th[t].b) = s

\* fio_mem___block_rotate has unlocked and is about to write ref = 1 into the
\* new block of arena a
BeingInitialised(a) ==
  \E t \in Threads : th[t].pc = "rot_init" /\ th[t].arena = a

\* C40 as stated: whenever the global lock is free, every mapped
\* super-block's root_ref is the number of its blocks off the free list,
\* every block on the free list has ref 0 and is no arena's block, and every
\* arena's block has ref one more than its slices out.
C40_Accounting ==
  glock = 0 =>
    /\ \A s \in mapped : RootRefCounts(s)
    /\ FreeListIdle
    /\ \A a \in Arenas : ablock[a] # NULL => ArenaBlockRef(a)

\* C40 amended: whenever the global lock is free, the accounting of C40
\* holds for every mapped super-block that fio_mem___block_free is not about
\* to return to the system (that one has root_ref 0 and no block on the
\* list), and for every arena's block but one that fio_mem___block_rotate
\* has installed and not yet initialised (that one has ref 0).
C40_AccountingSettled ==
  glock = 0 =>
    /\ \A s \in mapped :
         IF BeingReleased(s)
           THEN blk[SBBase(s)].root_ref = 0 /\ OffList(s) = SBBlocks(s)
           ELSE RootRefCounts(s)
    /\ FreeListIdle
    /\ \A a \in Arenas :
         ablock[a] # NULL =>
           IF BeingInitialised(a) THEN blk[ablock[a]].ref = 0
           ELSE ArenaBlockRef(a)

\* the lock is free, nothing is in flight, and the accounting is not all
\* zero: a super-block has a block on the free list and one off it, an
\* arena's block has a slice out, and a block came back to the list before
C40_Witness ==
  /\ glock = 0
  /\ \A t \in Threads : th[t].pc = "idle"
  /\ \E s \in mapped : OffList(s) # {} /\ OffList(s) # SBBlocks(s)
  /\ \E a \in Arenas : ablock[a] # NULL /\ SlicesOf(ablock[a]) >= 1
  /\ \E b \in Blocks : OnList(b) /\ b # SBBase(SBOf(b))

=============================================================================
